---- MODULE Spec2Model ----
(***************************************************************************)
(* Banner registry of EncartesAPI: the active ordered-set, the day-rule    *)
(* map and the disabled set kept in Redis, the media objects kept in       *)
(* Cloudinary, and the request handlers that move urls between them.       *)
(* Three revisions of the disable/enable server are modelled:              *)
(*   "noday" : src/Server.js lines 1-441   (no day rules)                  *)
(*   "seq"   : src/Server.js lines 442-902 (day rules, calls in sequence)  *)
(*   "par"   : src/unnamed/part_000 lines 94-365 (day rules, Promise.all)  *)
(* Every await of a handler is one step, so requests can interleave.       *)
(***************************************************************************)
EXTENDS Integers, Sequences, FiniteSets, TLC

\* ------------------------------------------------------------------ bounds
\* Uploads the media store accepts in one behaviour.
MaxUploads == 2
\* Requests started in one behaviour.
MaxRequests == 4
\* The same two bounds for the behaviours of SpecAppend.
MaxAppendUploads == 3
MaxAppendRequests == 6
\* The same two bounds for the behaviours of SpecToggle.
MaxToggleUploads == 2
MaxToggleRequests == 3
\* The same two bounds for the behaviours of SpecReorder.
MaxReorderUploads == 3
MaxReorderRequests == 5
\* The same two bounds for the behaviours of SpecCleanup.
MaxCleanUploads == 2
MaxCleanRequests == 3
\* The same two bounds for the behaviours of SpecFailSets.
MaxFailUploads == 1
MaxFailRequests == 4
\* The same two bounds for the behaviours of SpecToggleConc.
MaxRaceUploads == 2
MaxRaceRequests == 3
\* The same two bounds for the behaviours of SpecFlyers.
MaxFlyerUploads == 2
MaxFlyerRequests == 3
\* Longest url, in tokens, of the behaviours of SpecExtract.
MaxUrlLen == 5
\* Files uploaded and requests started where one request is compared.
MaxAloneUploads == 2
MaxAloneRequests == 4
\* The same two bounds where banners are switched off and on again.
MaxSwitchUploads == 2
MaxSwitchRequests == 4
\* The same two bounds where an enable meets a disable.
MaxEnableUploads == 1
MaxEnableRequests == 4

\* ------------------------------------------------------------- constants
Revisions == {"noday", "seq", "par"}

CLOUDINARY_FOLDER == "banners_folder"

DAYS_MAP == [i \in 0..6 |->
    CASE i = 0 -> "SUN" [] i = 1 -> "MON" [] i = 2 -> "TUE" [] i = 3 -> "WED"
      [] i = 4 -> "THU" [] i = 5 -> "FRI" [] i = 6 -> "SAT"]

\* Fault: a list of valid days that lets any day string through.
VALID_DAYS_ANY == {DAYS_MAP[i] : i \in 0..6} \cup {"ALL", "XYZ"}

VALID_DAYS == {DAYS_MAP[i] : i \in 0..6} \cup {"ALL"}

\* Day strings the request bodies carry; "" stands for a missing day.
CreateDays == {"", "MON", "XYZ"}
EnableDays == {"", "fri", "XYZ"}
UpdateDays == {"", "TUE", "XYZ"}

\* String.prototype.toUpperCase on the day strings of the model.
toUpperCase(s) ==
    CASE s = "fri" -> "FRI" [] s = "mon" -> "MON" [] s = "tue" -> "TUE"
      [] s = "all" -> "ALL" [] OTHER -> s

\* `day ? day.toUpperCase() : 'ALL'`
targetDayOf(day) == IF day = "" THEN "ALL" ELSE toUpperCase(day)

\* Weekdays `new Date().getDay()` may return when a listing runs.
Todays == {1, 5}

\* Urls result.secure_url takes, in upload order, and a url no upload gave.
UploadUrls == <<"u1", "u2", "u3", "u4">>
ForeignUrl == "zz"
AllUrls == {UploadUrls[i] : i \in DOMAIN UploadUrls} \cup {ForeignUrl}

\* The bookkeeping member the toggle revision keeps in the ordered-set.
LAST_SCORE_TRACKER == "last_score_tracker"

\* Folder of the toggle revision's uploads.
BANNER_FOLDER == "banners_rotativos"

\* Folder of the flyer uploads.
ENCARTE_FOLDER == "encartes_daily"

\* Byte order of the member strings (Redis orders equal scores by member).
MemberRank(u) ==
    IF u = LAST_SCORE_TRACKER THEN Len(UploadUrls) + 2
    ELSE IF u = ForeignUrl THEN Len(UploadUrls) + 1
    ELSE CHOOSE i \in DOMAIN UploadUrls : UploadUrls[i] = u

\* The characters of a url: "/" and "." are themselves, every other token
\* is a run of characters without "/" or ".".
UrlChars(u) ==
    CASE u = "u1" -> <<"https:", "/", "v1", "/", CLOUDINARY_FOLDER, "/", "a", ".", "png">>
      [] u = "u2" -> <<"https:", "/", "v1", "/", CLOUDINARY_FOLDER, "/", "b", ".", "png">>
      [] u = "u3" -> <<"https:", "/", "v1", "/", CLOUDINARY_FOLDER, "/", "c", ".", "png">>
      [] u = "u4" -> <<"https:", "/", "v1", "/", CLOUDINARY_FOLDER, "/", "d", ".", "png">>
      [] u = LAST_SCORE_TRACKER -> <<LAST_SCORE_TRACKER>>
      [] OTHER -> <<"https:", "/", "other", "/", "z", ".", "png">>

\* null of an optional value; <<v>> is the value v.
Null == <<>>

Range(seq) == {seq[i] : i \in DOMAIN seq}

\* ------------------------------------------------- identifier extraction
\* Index of the last "." of s, 0 when there is none (s.lastIndexOf('.') + 1).
LastDot(s) ==
    LET I == {i \in DOMAIN s : s[i] = "."}
    IN  IF I = {} THEN 0 ELSE CHOOSE i \in I : \A j \in I : j <= i

\* url.split('/')
RECURSIVE Split(_)
Split(s) ==
    LET I == {i \in DOMAIN s : s[i] = "/"}
    IN  IF I = {} THEN <<s>>
        ELSE LET k == CHOOSE i \in I : \A j \in I : i <= j
             IN  <<SubSeq(s, 1, k - 1)>> \o Split(SubSeq(s, k + 1, Len(s)))

\* Fault: an extraction that does not compare the folder segment.
extractPublicIdAnyFolder(u) ==
    LET parts == Split(UrlChars(u))
        fileNameWithExt == parts[Len(parts)]
    IN  IF Len(parts) < 2 THEN Null
        ELSE parts[Len(parts) - 1] \o <<"/">> \o
             SubSeq(fileNameWithExt, 1, LastDot(fileNameWithExt) - 1)

\* extractPublicIdFromUrl of src/Server.js on the characters s of a url.
PublicIdBySplit(s) ==
    LET parts == Split(s)
    IN  IF Len(parts) < 2 THEN Null
        ELSE LET fileNameWithExt == parts[Len(parts)]
                 fileName == SubSeq(fileNameWithExt, 1, LastDot(fileNameWithExt) - 1)
                 folderName == parts[Len(parts) - 1]
             IN  IF folderName # <<CLOUDINARY_FOLDER>> THEN Null
                 ELSE folderName \o <<"/">> \o fileName

\* extractPublicIdFromUrl of src/unnamed/part_000 on the characters s of a url.
PublicIdByIndexOf(s) ==
    LET I == {i \in 1..(Len(s) - 2) :
                s[i] = "/" /\ s[i + 1] = CLOUDINARY_FOLDER /\ s[i + 2] = "/"}
    IN  IF I = {} THEN Null
        ELSE LET folderIndex == CHOOSE i \in I : \A j \in I : i <= j
                 publicIdPath == SubSeq(s, folderIndex + 1, Len(s))
                 lastDot == LastDot(publicIdPath)
             IN  IF lastDot > 1 THEN SubSeq(publicIdPath, 1, lastDot - 1)
                 ELSE publicIdPath

\* extractPublicIdFromUrl of src/Server.js (split on "/").
extractPublicIdSplit(u) == PublicIdBySplit(UrlChars(u))

\* extractPublicIdFromUrl of src/unnamed/part_000 (indexOf the folder).
extractPublicIdIndexOf(u) == PublicIdByIndexOf(UrlChars(u))

extractPublicIdFromUrl(rev, u) ==
    IF rev = "par" THEN extractPublicIdIndexOf(u) ELSE extractPublicIdSplit(u)

\* public_id of the object an upload stores behind url u.
PublicIdOf(u) == extractPublicIdSplit(u)

\* ------------------------------------------------------ store primitives
\* Fault: a zadd that puts the member after the largest score of the set.
ZAddAtEnd(z, score, member) ==
    [u \in DOMAIN z \cup {member} |->
        IF u # member THEN z[u]
        ELSE IF \E v \in DOMAIN z \ {member} : z[v] >= score
        THEN 1 + CHOOSE s \in {z[v] : v \in DOMAIN z \ {member}} :
                    \A v \in DOMAIN z \ {member} : z[v] <= s
        ELSE score]

ZAdd(z, score, member) ==
    [u \in DOMAIN z \cup {member} |-> IF u = member THEN score ELSE z[u]]

\* Fault: zrem that leaves the member in place.
ZRemKept(z, member) == z

ZRem(z, member) == [u \in DOMAIN z \ {member} |-> z[u]]

\* Fault: zcard of a key that holds nothing.
ZCardZero(z) == Cardinality({})

\* Fault: zcard that counts from one.
ZCardOneBased(z) == Cardinality(DOMAIN z) + 1

ZCard(z) == Cardinality(DOMAIN z)

\* Fault: a zscore that never finds the member.
ZScoreNull(z, member) == Null

\* zscore: the score, or null for a url that is no member.
ZScore(z, member) == IF member \in DOMAIN z THEN <<z[member]>> ELSE Null

\* zrange 0 -1 withScores: <<member, score>> pairs by score, then by member.
RECURSIVE ZRange(_)
ZRange(z) ==
    IF DOMAIN z = {} THEN <<>>
    ELSE LET m == CHOOSE u \in DOMAIN z : \A v \in DOMAIN z :
                    \/ z[u] < z[v]
                    \/ z[u] = z[v] /\ MemberRank(u) <= MemberRank(v)
         IN  <<[url |-> m, position |-> z[m]]>>
                \o ZRange([u \in DOMAIN z \ {m} |-> z[u]])

\* Fault: a zadd of many members that gives each of them the score 0.
RECURSIVE ZAddManyFlat(_, _, _)
ZAddManyFlat(z, urls, i) ==
    IF i > Len(urls) THEN z
    ELSE ZAddManyFlat(ZAdd(z, 0, urls[i]), urls, i + 1)

\* Fault: a zadd of many members that drops the members it is not given.
ZAddManyOnly(z, urls, i) ==
    [u \in {urls[j] : j \in i..Len(urls)} |->
        (CHOOSE j \in i..Len(urls) :
            urls[j] = u /\ \A k \in (j + 1)..Len(urls) : urls[k] # u) - 1]

\* zadd with a list of {score: index, member: url}: later entries win.
RECURSIVE ZAddMany(_, _, _)
ZAddMany(z, urls, i) ==
    IF i > Len(urls) THEN z
    ELSE ZAddMany(ZAdd(z, i - 1, urls[i]), urls, i + 1)

\* Fault: hset that writes the default day whatever day it is given.
HSetDefault(h, field, value) ==
    [u \in DOMAIN h \cup {field} |-> IF u = field THEN "ALL" ELSE h[u]]

HSet(h, field, value) ==
    [u \in DOMAIN h \cup {field} |-> IF u = field THEN value ELSE h[u]]

HDel(h, field) == [u \in DOMAIN h \ {field} |-> h[u]]

\* Fault: sadd whose write is lost.
SAddLost(set, member) == set

SAdd(set, member) == set \cup {member}

\* Fault: srem that leaves the member in place.
SRemKept(set, member) == set

SRem(set, member) == set \ {member}

\* Fault: a sismember that never finds the member.
SIsMemberNever(set, member) == FALSE

SIsMember(set, member) == member \in set

SMembers(set) == set

\* hgetall of @upstash/redis answers null for a hash without fields.
HGetAll(h) == IF DOMAIN h = {} THEN Null ELSE <<h>>

\* ------------------------------------------------------------------ state
VARIABLES
    rev,        \* the revision of the server that is deployed
    active,     \* ACTIVE_BANNERS_KEY: the ordered-set, url -> score
    days,       \* BANNER_DAYS_KEY: the hash, url -> day
    disabled,   \* DISABLED_BANNERS_KEY: the set of urls
    cloud,      \* public_ids of the objects Cloudinary holds
    req,        \* per connection: the request in progress and its locals
    last,       \* the response just sent; NoResp once anything else happens
    uploads,    \* files handed to cloudinary.uploader.upload so far
    requests,   \* requests started so far
    createdDay, \* urls a 201 of POST returned, each with the day it returned
    destroyed,  \* urls a 200 of DELETE was answered for
    failed,     \* a store call has thrown
    encartes,   \* ENCARTES_KEY: the list of flyer urls, newest first
    added,      \* flyer urls an upload has pushed on the list
    asked,      \* flyer urls whose media object a delete was asked for
    input,      \* a url handed to the two extractPublicIdFromUrl
    output,     \* what each of them returned for it, Null before the call
    before,     \* the stores the last request started from, Null where the
                \* specification does not keep them
    enables     \* the enables answered 200 that stand, Null where the
                \* specification does not keep them

stores == <<active, days, disabled, cloud>>

flyers == <<encartes, added, asked>>

extraction == <<input, output>>

vars == <<rev, active, days, disabled, cloud, req, last, uploads, requests,
          createdDay, destroyed, failed, encartes, added, asked, input, output,
          before, enables>>

created == DOMAIN createdDay

Procs == {1, 2}

IdleReq ==
    [op |-> "none", pc |-> "idle", url |-> "", day |-> "", orderedUrls |-> <<>>,
     today |-> 0, pend |-> {}, err |-> FALSE, newPosition |-> 0,
     removedActive |-> 0, removedDayRule |-> 0, removedDisabled |-> 0,
     zgetData |-> <<>>, status |-> "", bannerDaysConfig |-> <<>>,
     again |-> FALSE, threw |-> "", other |-> FALSE]

NoResp ==
    [op |-> "none", status |-> 0, error |-> "", url |-> "", day |-> "",
     position |-> Null, banners |-> <<>>, redisRemoved |-> Null,
     cloudinaryStatus |-> "", updatedCount |-> Null, toggled |-> "",
     again |-> FALSE, orderedUrls |-> <<>>, at |-> "idle", removed |-> Null,
     mediaResult |-> "", redisStatus |-> "", threw |-> "", other |-> FALSE]

Response(op, status, error) ==
    [NoResp EXCEPT !.op = op, !.status = status, !.error = error]

AllIdle == \A p \in Procs : req[p].pc = "idle"

\* Program order of the store calls that one handler step may hold.
CallOrder == <<"zrem", "hdel", "srem", "zadd", "hset">>

CallIndex(c) == CHOOSE i \in DOMAIN CallOrder : CallOrder[i] = c

\* The calls of r that may reach the store next: all those of a Promise.all,
\* the next one in program order of a sequence of awaits.
Ready(r) ==
    IF rev = "par" \/ Cardinality(r.pend) <= 1 THEN r.pend
    ELSE {c \in r.pend : \A d \in r.pend : CallIndex(c) <= CallIndex(d)}

\* The request moves to step pc, which holds the calls pend.
Goto(r, pc, pend) == [r EXCEPT !.pc = pc, !.pend = pend, !.err = FALSE]

\* The enables that stand once p is answered resp. An enable of url answered
\* 200 stands, with its day, as long as every other request on url that has
\* overlapped it or followed it was answered 404; `during` holds the
\* connections whose request has seen another request on its url answered
\* otherwise.
Answered(p, resp) ==
    LET others == {q \in Procs \ {p} : req[q].pc # "idle" /\ req[q].url = resp.url}
        stands == resp.op = "enable" /\ resp.status = 200 /\ p \notin enables.during
        kept == IF resp.status = 404 THEN DOMAIN enables.day
                ELSE DOMAIN enables.day \ {resp.url}
    IN  [day |-> [u \in kept \cup (IF stands THEN {resp.url} ELSE {}) |->
                    IF stands /\ u = resp.url THEN resp.day ELSE enables.day[u]],
         during |-> (enables.during \ {p})
                    \cup (IF resp.status = 404 THEN {} ELSE others)]

\* res.status(...).json(...): the request is over.
Reply(p, resp) ==
    /\ req' = [req EXCEPT ![p] = IdleReq]
    /\ last' = [resp EXCEPT !.again = req[p].again,
                            !.orderedUrls = req[p].orderedUrls,
                            !.at = req[p].pc, !.other = req[p].other]
    /\ createdDay' = IF resp.op = "create" /\ resp.status = 201
                     THEN [u \in created \cup {resp.url} |->
                              IF u = resp.url THEN resp.day ELSE createdDay[u]]
                     ELSE createdDay
    /\ destroyed' = IF resp.op = "destroy" /\ resp.status = 200
                    THEN destroyed \cup {resp.url} ELSE destroyed
    /\ enables' = IF enables = Null THEN Null ELSE Answered(p, resp)

Continue(p, r) ==
    /\ req' = [req EXCEPT ![p] = r]
    /\ last' = NoResp
    /\ UNCHANGED <<createdDay, destroyed, enables>>

\* Fault: the step goes on when the first of its calls has returned.
SettleFirst(p, r1, K) ==
    IF r1.err THEN Reply(p, [Response(r1.op, 500, "catch") EXCEPT
                               !.url = r1.url, !.threw = r1.threw])
    ELSE K

\* A call of r1's step has returned: wait for the rest of the step, go to
\* the catch block when one of them threw, else go on with K.
Settle(p, r1, K) ==
    IF r1.pend # {} THEN Continue(p, r1)
    ELSE IF r1.err THEN Reply(p, [Response(r1.op, 500, "catch") EXCEPT
                                    !.url = r1.url, !.threw = r1.threw])
    ELSE K

Start(p) ==
    /\ req[p].pc = "idle"
    /\ requests' = requests + 1
    /\ before' = IF before = Null THEN Null
                 ELSE [active |-> active, days |-> days, disabled |-> disabled]
    /\ UNCHANGED <<rev, extraction, flyers, stores, failed>>

Init ==
    /\ rev \in Revisions
    /\ active = <<>>
    /\ days = <<>>
    /\ disabled = {}
    /\ cloud = {}
    /\ req = [p \in Procs |-> IdleReq]
    /\ last = NoResp
    /\ uploads = 0
    /\ requests = 0
    /\ createdDay = <<>>
    /\ destroyed = {}
    /\ failed = FALSE
    /\ encartes = <<>>
    /\ added = {}
    /\ asked = {}
    /\ input = <<>>
    /\ output = Null
    /\ before = Null
    /\ enables = Null

\* --------------------------------------------------------- POST (create)
BeginCreate(p, hasFile, day) ==
    /\ Start(p)
    /\ IF ~hasFile
       THEN Reply(p, Response("create", 400, "no file")) /\ UNCHANGED uploads
       ELSE IF rev # "noday" /\ targetDayOf(day) \notin VALID_DAYS
       THEN Reply(p, Response("create", 400, "invalid day")) /\ UNCHANGED uploads
       ELSE /\ uploads < Len(UploadUrls)
            /\ uploads' = uploads + 1
            /\ Continue(p, Goto([IdleReq EXCEPT
                    !.op = "create",
                    !.url = UploadUrls[uploads + 1],
                    !.day = IF rev = "noday" THEN "" ELSE targetDayOf(day)],
                  "create.upload", {"upload"}))

CreateUpload(p, c) ==
    LET r == req[p] IN
    /\ r.pc = "create.upload" /\ c \in Ready(r)
    /\ cloud' = cloud \cup {PublicIdOf(r.url)}
    /\ Continue(p, Goto(r, "create.zcard", {"zcard"}))
    /\ UNCHANGED <<rev, before, extraction, flyers, active, days, disabled, uploads, requests, failed>>

CreateZcard(p, c) ==
    LET r == req[p] IN
    /\ r.pc = "create.zcard" /\ c \in Ready(r)
    /\ Continue(p, Goto([r EXCEPT !.newPosition = ZCard(active)], "create.write",
                        IF rev = "noday" THEN {"zadd"} ELSE {"zadd", "hset"}))
    /\ UNCHANGED <<rev, before, extraction, flyers, stores, uploads, requests, failed>>

CreateWrite(p, c) ==
    LET r == req[p]
        r1 == [r EXCEPT !.pend = @ \ {c}]
    IN  /\ r.pc = "create.write" /\ c \in Ready(r)
        /\ active' = IF c = "zadd" THEN ZAdd(active, r.newPosition, r.url) ELSE active
        /\ days' = IF c = "hset" THEN HSet(days, r.url, r.day) ELSE days
        /\ Settle(p, r1, Reply(p, [Response("create", 201, "") EXCEPT
                !.url = r.url, !.day = r.day, !.position = <<r.newPosition>>]))
        /\ UNCHANGED <<rev, before, extraction, flyers, disabled, cloud, uploads, requests, failed>>

\* ------------------------------------------------------- GET (listings)
\* Fault: a weekday filter that keeps every item.
FilterTodayAll(activeBanners, todayKey) == activeBanners

\* The weekday filter of GET /api/encarte and GET /api/banners.
FilterToday(activeBanners, todayKey) ==
    SelectSeq(activeBanners, LAMBDA b : b.day = "ALL" \/ b.day = todayKey)

UrlsOf(activeBanners) == [i \in DOMAIN activeBanners |-> activeBanners[i].url]

\* getActiveBannersOrdered once both reads have answered.
getActiveBannersOrdered(zgetData, bannerDayRules) ==
    [i \in DOMAIN zgetData |->
        [url |-> zgetData[i].url,
         day |-> IF zgetData[i].url \in DOMAIN bannerDayRules
                 THEN bannerDayRules[zgetData[i].url] ELSE "ALL",
         position |-> zgetData[i].position]]

\* The body a listing answers with, from the result of getActiveBannersOrdered.
ListResponse(r, activeBanners) ==
    IF r.op = "listAll"
    THEN [Response("listAll", 200, "") EXCEPT !.banners = activeBanners]
    ELSE IF rev = "noday"
    THEN [Response("list", 200, "") EXCEPT !.banners = UrlsOf(activeBanners)]
    ELSE [Response("list", 200, "") EXCEPT
            !.banners = UrlsOf(FilterToday(activeBanners, DAYS_MAP[r.today])),
            !.day = DAYS_MAP[r.today]]

\* What a listing answers once hgetall has answered bannerDayRules:
\* bannerDayRules[url] throws a TypeError when bannerDayRules is null.
ListReply(r, zgetData, bannerDayRules) ==
    IF bannerDayRules = Null THEN Response(r.op, 500, "TypeError")
    ELSE ListResponse(r, getActiveBannersOrdered(zgetData, bannerDayRules[1]))

BeginList(p, today) ==
    /\ Start(p)
    /\ Continue(p, Goto([IdleReq EXCEPT !.op = "list",
                            !.today = IF rev = "noday" THEN 0 ELSE today],
                        "list.zrange", {"zrange"}))
    /\ UNCHANGED uploads

BeginListAll(p) ==
    /\ Start(p)
    /\ Continue(p, Goto([IdleReq EXCEPT !.op = "listAll"], "list.zrange", {"zrange"}))
    /\ UNCHANGED uploads

BeginListDisabled(p) ==
    /\ Start(p)
    /\ Continue(p, Goto([IdleReq EXCEPT !.op = "listDisabled"],
                        "list.smembers", {"smembers"}))
    /\ UNCHANGED uploads

ListZrange(p, c) ==
    LET r == req[p]
        zgetData == ZRange(active)
    IN  /\ r.pc = "list.zrange" /\ c \in Ready(r)
        /\ IF Len(zgetData) = 0 THEN Reply(p, ListResponse(r, <<>>))
           ELSE IF rev = "noday" THEN Reply(p, ListResponse(r, zgetData))
           ELSE Continue(p, Goto([r EXCEPT !.zgetData = zgetData],
                                 "list.hgetall", {"hgetall"}))
        /\ UNCHANGED <<rev, before, extraction, flyers, stores, uploads, requests, failed>>

ListHgetall(p, c) ==
    LET r == req[p] IN
        /\ r.pc = "list.hgetall" /\ c \in Ready(r)
        /\ Reply(p, ListReply(r, r.zgetData, HGetAll(days)))
        /\ UNCHANGED <<rev, before, extraction, flyers, stores, uploads, requests, failed>>

ListSmembers(p, c) ==
    LET r == req[p] IN
    /\ r.pc = "list.smembers" /\ c \in Ready(r)
    /\ Reply(p, [Response("listDisabled", 200, "") EXCEPT !.banners = SMembers(disabled)])
    /\ UNCHANGED <<rev, before, extraction, flyers, stores, uploads, requests, failed>>

\* Urls a client can name: those it was given or can list, and one of its own.
KnownUrls == created \cup DOMAIN active \cup disabled \cup {ForeignUrl}

\* Entries the removals of r removed, over the three structures.
RemovedInTotal(r) == r.removedActive + r.removedDayRule + r.removedDisabled

\* ------------------------------------------------------ PUT .../disable
BeginDisable(p, url) ==
    /\ Start(p)
    /\ IF url = "" THEN Reply(p, Response("disable", 400, "no url"))
       ELSE Continue(p, Goto([IdleReq EXCEPT !.op = "disable", !.url = url],
                "disable.remove",
                IF rev = "noday" THEN {"zrem"} ELSE {"zrem", "hdel"}))
    /\ UNCHANGED uploads

DisableRemove(p, c) ==
    LET r == req[p]
        r1 == [r EXCEPT !.pend = @ \ {c},
                        !.removedActive = IF c # "zrem" THEN @
                                          ELSE IF r.url \in DOMAIN active THEN 1 ELSE 0,
                        !.removedDayRule = IF c # "hdel" THEN @
                                           ELSE IF r.url \in DOMAIN days THEN 1 ELSE 0,
                        !.other = IF c # "zrem" THEN @ ELSE r.url \in disabled]
    IN  /\ r.pc = "disable.remove" /\ c \in Ready(r)
        /\ active' = IF c = "zrem" THEN ZRem(active, r.url) ELSE active
        /\ days' = IF c = "hdel" THEN HDel(days, r.url) ELSE days
        /\ Settle(p, r1,
                IF r1.removedActive = 0
                THEN Continue(p, Goto(r1, "disable.sismember", {"sismember"}))
                ELSE Continue(p, Goto(r1, "disable.sadd", {"sadd"})))
        /\ UNCHANGED <<rev, before, extraction, flyers, disabled, cloud, uploads, requests, failed>>

DisableSismember(p, c) ==
    LET r == req[p] IN
    /\ r.pc = "disable.sismember" /\ c \in Ready(r)
    /\ IF SIsMember(disabled, r.url)
       THEN Reply(p, [Response("disable", 404, "already disabled") EXCEPT
                        !.url = r.url, !.removed = <<RemovedInTotal(r)>>])
       ELSE Reply(p, [Response("disable", 404, "not found") EXCEPT
                        !.url = r.url, !.removed = <<RemovedInTotal(r)>>])
    /\ UNCHANGED <<rev, before, extraction, flyers, stores, uploads, requests, failed>>

DisableSadd(p, c) ==
    LET r == req[p] IN
    /\ r.pc = "disable.sadd" /\ c \in Ready(r)
    /\ disabled' = SAdd(disabled, r.url)
    /\ Reply(p, [Response("disable", 200, "") EXCEPT !.url = r.url])
    /\ UNCHANGED <<rev, before, extraction, flyers, active, days, cloud, uploads, requests, failed>>

\* ------------------------------------------------------- PUT .../enable
BeginEnable(p, url, day) ==
    /\ Start(p)
    /\ IF url = "" \/ (rev # "noday" /\ targetDayOf(day) \notin VALID_DAYS)
       THEN Reply(p, Response("enable", 400, "no url or invalid day"))
       ELSE Continue(p, Goto([IdleReq EXCEPT !.op = "enable", !.url = url,
                    !.day = IF rev = "noday" THEN "" ELSE targetDayOf(day)],
                "enable.srem", {"srem"}))
    /\ UNCHANGED uploads

EnableSrem(p, c) ==
    LET r == req[p]
        removedFromDisabled == IF r.url \in disabled THEN 1 ELSE 0
    IN  /\ r.pc = "enable.srem" /\ c \in Ready(r)
        /\ disabled' = SRem(disabled, r.url)
        /\ IF removedFromDisabled = 0
           THEN Continue(p, Goto([r EXCEPT !.removedDisabled = 0,
                                           !.other = r.url \in DOMAIN active],
                                 "enable.zscore", {"zscore"}))
           ELSE Continue(p, Goto([r EXCEPT !.removedDisabled = 1,
                                           !.other = r.url \in DOMAIN active],
                                 "enable.zcard", {"zcard"}))
        /\ UNCHANGED <<rev, before, extraction, flyers, active, days, cloud, uploads, requests, failed>>

EnableZscore(p, c) ==
    LET r == req[p] IN
    /\ r.pc = "enable.zscore" /\ c \in Ready(r)
    /\ IF ZScore(active, r.url) # Null
       THEN Reply(p, [Response("enable", 404, "already active") EXCEPT !.url = r.url])
       ELSE Reply(p, [Response("enable", 404, "not found") EXCEPT !.url = r.url])
    /\ UNCHANGED <<rev, before, extraction, flyers, stores, uploads, requests, failed>>

EnableZcard(p, c) ==
    LET r == req[p] IN
    /\ r.pc = "enable.zcard" /\ c \in Ready(r)
    /\ Continue(p, Goto([r EXCEPT !.newPosition = ZCard(active)], "enable.write",
                        IF rev = "noday" THEN {"zadd"} ELSE {"zadd", "hset"}))
    /\ UNCHANGED <<rev, before, extraction, flyers, stores, uploads, requests, failed>>

EnableWrite(p, c) ==
    LET r == req[p]
        r1 == [r EXCEPT !.pend = @ \ {c}]
    IN  /\ r.pc = "enable.write" /\ c \in Ready(r)
        /\ active' = IF c = "zadd" THEN ZAdd(active, r.newPosition, r.url) ELSE active
        /\ days' = IF c = "hset" THEN HSet(days, r.url, r.day) ELSE days
        /\ Settle(p, r1, Reply(p, [Response("enable", 200, "") EXCEPT
                !.url = r.url, !.day = r.day, !.position = <<r.newPosition>>]))
        /\ UNCHANGED <<rev, before, extraction, flyers, disabled, cloud, uploads, requests, failed>>

\* --------------------------------------------------- PUT .../update-day
BeginUpdateDay(p, url, day) ==
    /\ rev # "noday"
    /\ Start(p)
    /\ IF url = "" \/ targetDayOf(day) \notin VALID_DAYS
       THEN Reply(p, Response("updateDay", 400, "no url or invalid day"))
       ELSE Continue(p, Goto([IdleReq EXCEPT !.op = "updateDay", !.url = url,
                                             !.day = targetDayOf(day)],
                "updateDay.zscore", {"zscore"}))
    /\ UNCHANGED uploads

UpdateDayZscore(p, c) ==
    LET r == req[p] IN
    /\ r.pc = "updateDay.zscore" /\ c \in Ready(r)
    /\ IF ZScore(active, r.url) = Null
       THEN Reply(p, [Response("updateDay", 404, "not found") EXCEPT !.url = r.url])
       ELSE Continue(p, Goto(r, "updateDay.hset", {"hset"}))
    /\ UNCHANGED <<rev, before, extraction, flyers, stores, uploads, requests, failed>>

UpdateDayHset(p, c) ==
    LET r == req[p] IN
    /\ r.pc = "updateDay.hset" /\ c \in Ready(r)
    /\ days' = HSet(days, r.url, r.day)
    /\ Reply(p, [Response("updateDay", 200, "") EXCEPT !.url = r.url, !.day = r.day])
    /\ UNCHANGED <<rev, before, extraction, flyers, active, disabled, cloud, uploads, requests, failed>>

\* ------------------------------------------------------ PUT .../reorder
\* Lists of distinct urls a reorder request may carry.
ReorderLists(U) ==
    {<<>>} \cup {<<a>> : a \in U} \cup {l \in U \X U : l[1] # l[2]}

\* What zadd answers: the number of members it added (not those rescored).
ZAddManyResult(z, urls) == Cardinality({urls[i] : i \in DOMAIN urls} \ DOMAIN z)

BeginReorder(p, isArray, orderedUrls) ==
    /\ Start(p)
    /\ IF ~isArray THEN Reply(p, Response("reorder", 400, "not an array"))
       ELSE IF Len(orderedUrls) = 0 THEN Reply(p, Response("reorder", 200, "nothing"))
       ELSE Continue(p, Goto([IdleReq EXCEPT !.op = "reorder",
                                             !.orderedUrls = orderedUrls],
                "reorder.zadd", {"zadd"}))
    /\ UNCHANGED uploads

ReorderZadd(p, c) ==
    LET r == req[p] IN
    /\ r.pc = "reorder.zadd" /\ c \in Ready(r)
    /\ active' = ZAddMany(active, r.orderedUrls, 1)
    /\ Reply(p, [Response("reorder", 200, "") EXCEPT !.updatedCount =
            IF rev = "noday" THEN <<Len(r.orderedUrls)>>
            ELSE <<ZAddManyResult(active, r.orderedUrls)>>])
    /\ UNCHANGED <<rev, before, extraction, flyers, days, disabled, cloud, uploads, requests, failed>>

\* -------------------------------------------------------------- DELETE
\* The response just sent answered a DELETE of url that ran to its end.
JustDestroyed(url) ==
    last.op = "destroy" /\ last.url = url /\ last.status \in {200, 404}

BeginDestroy(p, url) ==
    /\ Start(p)
    /\ IF url = "" THEN Reply(p, Response("destroy", 400, "no url"))
       ELSE Continue(p, Goto([IdleReq EXCEPT !.op = "destroy", !.url = url,
                                             !.again = JustDestroyed(url)],
                "destroy.remove",
                IF rev = "noday" THEN {"zrem", "srem"} ELSE {"zrem", "hdel", "srem"}))
    /\ UNCHANGED uploads

\* Fault: only the active set and the disabled set are asked.
NothingRemovedOfSets(r1) == r1.removedActive + r1.removedDisabled = 0

\* `redisRemoved === 0 && removedDayRule === 0` (`redisRemoved === 0` where
\* there is no day-rule map).
NothingRemoved(r1) ==
    /\ r1.removedActive + r1.removedDisabled = 0
    /\ rev = "noday" \/ r1.removedDayRule = 0

\* What DELETE of url, running alone, decides on the stores a, d, dis: its
\* three removals answer 1 for an entry they find.
DestroyDecision(url, a, d, dis) ==
    LET r1 == [removedActive |-> IF url \in DOMAIN a THEN 1 ELSE 0,
               removedDayRule |-> IF url \in DOMAIN d THEN 1 ELSE 0,
               removedDisabled |-> IF url \in dis THEN 1 ELSE 0]
    IN  IF NothingRemoved(r1) THEN "not found"
        ELSE IF extractPublicIdFromUrl(rev, url) = Null THEN "no media delete"
        ELSE "media delete"

\* The answer of DELETE once the three removals have returned.
DestroyRemoved(p, r1) ==
    LET redisRemoved == r1.removedActive + r1.removedDisabled
        publicId == extractPublicIdFromUrl(rev, r1.url)
    IN  IF NothingRemoved(r1)
        THEN Reply(p, [Response("destroy", 404, "not found") EXCEPT
                        !.url = r1.url, !.removed = <<RemovedInTotal(r1)>>])
        ELSE IF publicId = Null
        THEN Reply(p, [Response("destroy", 200, "no public_id") EXCEPT
                        !.url = r1.url, !.redisRemoved = <<redisRemoved>>,
                        !.removed = <<RemovedInTotal(r1)>>])
        ELSE Continue(p, Goto(r1, "destroy.media", {"destroy"}))

DestroyRemove(p, c) ==
    LET r == req[p]
        r1 == [r EXCEPT
                !.pend = @ \ {c},
                !.removedActive = IF c # "zrem" THEN @
                                  ELSE IF r.url \in DOMAIN active THEN 1 ELSE 0,
                !.removedDayRule = IF c # "hdel" THEN @
                                   ELSE IF r.url \in DOMAIN days THEN 1 ELSE 0,
                !.removedDisabled = IF c # "srem" THEN @
                                    ELSE IF r.url \in disabled THEN 1 ELSE 0]
    IN  /\ r.pc = "destroy.remove" /\ c \in Ready(r)
        /\ active' = IF c = "zrem" THEN ZRem(active, r.url) ELSE active
        /\ days' = IF c = "hdel" THEN HDel(days, r.url) ELSE days
        /\ disabled' = IF c = "srem" THEN SRem(disabled, r.url) ELSE disabled
        /\ Settle(p, r1, DestroyRemoved(p, r1))
        /\ UNCHANGED <<rev, before, extraction, flyers, cloud, uploads, requests, failed>>

\* Results cloudinary.uploader.destroy may answer for publicId.
DestroyResults(publicId) ==
    IF publicId \in cloud THEN {"ok", "error"} ELSE {"not found", "error"}

DestroyMedia(p, c, result) ==
    LET r == req[p]
        publicId == extractPublicIdFromUrl(rev, r.url)
        redisRemoved == r.removedActive + r.removedDisabled
    IN  /\ r.pc = "destroy.media" /\ c \in Ready(r)
        /\ result \in DestroyResults(publicId)
        /\ cloud' = IF result = "ok" THEN cloud \ {publicId} ELSE cloud
        /\ IF result # "not found" /\ result # "ok"
           THEN Reply(p, [Response("destroy", 200, "cloudinary error") EXCEPT
                            !.url = r.url, !.cloudinaryStatus = result,
                            !.mediaResult = result,
                            !.removed = <<RemovedInTotal(r)>>])
           ELSE Reply(p, [Response("destroy", 200, "") EXCEPT
                            !.url = r.url, !.redisRemoved = <<redisRemoved>>,
                            !.cloudinaryStatus = "ok", !.mediaResult = result,
                            !.removed = <<RemovedInTotal(r)>>])
        /\ UNCHANGED <<rev, before, extraction, flyers, active, days, disabled, uploads, requests, failed>>

\* What GET /api/encarte (op "list") or GET /api/encarte/all (op "listAll")
\* answers when it runs alone from the present state.
ListNow(op, today) ==
    LET r == [IdleReq EXCEPT !.op = op, !.today = today]
        zgetData == ZRange(active)
    IN  IF Len(zgetData) = 0 THEN ListResponse(r, <<>>)
        ELSE IF rev = "noday" THEN ListResponse(r, zgetData)
        ELSE ListReply(r, zgetData, HGetAll(days))

\* ------------------------------- the toggle revision (src/unnamed/part_001)
\* `(maxScore ? parseFloat(maxScore) : 0) + 1`
NextScore(maxScore) ==
    (IF maxScore = Null \/ maxScore = <<0>> THEN 0 ELSE maxScore[1]) + 1

\* The public_id DELETE /api/banners/:url computes: the folder and the last
\* path segment up to its first ".".
TogglePublicId(u) ==
    LET parts == Split(UrlChars(u))
        filenameWithExt == parts[Len(parts)]
        I == {i \in DOMAIN filenameWithExt : filenameWithExt[i] = "."}
    IN  <<BANNER_FOLDER, "/">> \o
        (IF I = {} THEN filenameWithExt
         ELSE SubSeq(filenameWithExt, 1, (CHOOSE i \in I : \A j \in I : i <= j) - 1))

\* The request of p is at step pc and its call c may reach the store.
AtStep(p, pc, c) == req[p].pc = pc /\ c \in Ready(req[p])

\* POST /api/banners
BeginToggleCreate(p, hasFile, day) ==
    /\ rev = "toggle"
    /\ Start(p)
    /\ IF ~hasFile
       THEN Reply(p, Response("create", 400, "no file")) /\ UNCHANGED uploads
       ELSE /\ uploads < Len(UploadUrls)
            /\ uploads' = uploads + 1
            /\ Continue(p, Goto([IdleReq EXCEPT
                    !.op = "create",
                    !.url = UploadUrls[uploads + 1],
                    !.day = IF day = "" THEN "ALL" ELSE day],
                  "tcreate.upload", {"upload"}))

ToggleCreateUpload(p, c) ==
    /\ AtStep(p, "tcreate.upload", c)
    /\ cloud' = cloud \cup {TogglePublicId(req[p].url)}
    /\ Continue(p, Goto(req[p], "tcreate.zscore", {"zscore"}))
    /\ UNCHANGED <<rev, before, extraction, flyers, active, days, disabled, uploads, requests, failed>>

ToggleCreateZscore(p, c) ==
    /\ AtStep(p, "tcreate.zscore", c)
    /\ Continue(p, Goto([req[p] EXCEPT
            !.newPosition = NextScore(ZScore(active, LAST_SCORE_TRACKER))],
          "tcreate.zadd", {"zadd"}))
    /\ UNCHANGED <<rev, before, extraction, flyers, stores, uploads, requests, failed>>

ToggleCreateZadd(p, c) ==
    /\ AtStep(p, "tcreate.zadd", c)
    /\ active' = ZAdd(active, req[p].newPosition, req[p].url)
    /\ Continue(p, Goto(req[p], "tcreate.hset", {"hset"}))
    /\ UNCHANGED <<rev, before, extraction, flyers, days, disabled, cloud, uploads, requests, failed>>

ToggleCreateHset(p, c) ==
    /\ AtStep(p, "tcreate.hset", c)
    /\ days' = HSet(days, req[p].url, req[p].day)
    /\ Continue(p, Goto(req[p], "tcreate.tracker", {"zadd"}))
    /\ UNCHANGED <<rev, before, extraction, flyers, active, disabled, cloud, uploads, requests, failed>>

ToggleCreateTracker(p, c) ==
    /\ AtStep(p, "tcreate.tracker", c)
    /\ active' = ZAdd(active, req[p].newPosition, LAST_SCORE_TRACKER)
    /\ Continue(p, Goto(req[p], "tcreate.srem", {"srem"}))
    /\ UNCHANGED <<rev, before, extraction, flyers, days, disabled, cloud, uploads, requests, failed>>

ToggleCreateSrem(p, c) ==
    LET r == req[p] IN
    /\ AtStep(p, "tcreate.srem", c)
    /\ disabled' = SRem(disabled, r.url)
    /\ Reply(p, [Response("create", 201, "") EXCEPT
            !.url = r.url, !.day = r.day, !.position = <<r.newPosition>>])
    /\ UNCHANGED <<rev, before, extraction, flyers, active, days, cloud, uploads, requests, failed>>

\* PUT /api/banners/reorder
RECURSIVE ZAddFromOne(_, _, _)
ZAddFromOne(z, urls, i) ==
    IF i > Len(urls) THEN z
    ELSE ZAddFromOne(ZAdd(z, i, urls[i]), urls, i + 1)

BeginToggleReorder(p, isArray, urls) ==
    /\ rev = "toggle"
    /\ Start(p)
    /\ IF ~isArray \/ Len(urls) = 0
       THEN Reply(p, Response("reorder", 400, "invalid list"))
       ELSE Continue(p, Goto([IdleReq EXCEPT !.op = "reorder", !.orderedUrls = urls],
                "treorder.del", {"del"}))
    /\ UNCHANGED uploads

ToggleReorderDel(p, c) ==
    /\ AtStep(p, "treorder.del", c)
    /\ active' = <<>>
    /\ Continue(p, Goto(req[p], "treorder.zadd", {"zadd"}))
    /\ UNCHANGED <<rev, before, extraction, flyers, days, disabled, cloud, uploads, requests, failed>>

ToggleReorderZadd(p, c) ==
    LET urls == req[p].orderedUrls IN
    /\ AtStep(p, "treorder.zadd", c)
    /\ active' = ZAdd(ZAddFromOne(active, urls, 1), Len(urls) + 1, LAST_SCORE_TRACKER)
    /\ Reply(p, Response("reorder", 200, ""))
    /\ UNCHANGED <<rev, before, extraction, flyers, days, disabled, cloud, uploads, requests, failed>>

\* PUT /api/banners/toggle
ToggleStatuses == {"active", "disabled", "other"}

BeginToggle(p, url, status, day) ==
    /\ rev = "toggle"
    /\ Start(p)
    /\ IF url = "" \/ status \notin {"active", "disabled"}
       THEN Reply(p, Response("toggle", 400, "invalid url or status"))
       ELSE Continue(p, Goto([IdleReq EXCEPT !.op = "toggle", !.url = url,
                    !.status = status, !.day = IF day = "" THEN "ALL" ELSE day],
                IF status = "disabled" THEN "toggle.sadd" ELSE "toggle.srem",
                IF status = "disabled" THEN {"sadd"} ELSE {"srem"}))
    /\ UNCHANGED uploads

\* Fault: switching a banner off also takes it out of the ordered-set, as the
\* disable of the other revisions does.
ToggleSaddZrem(p, c) ==
    /\ AtStep(p, "toggle.sadd", c)
    /\ disabled' = SAdd(disabled, req[p].url)
    /\ active' = ZRem(active, req[p].url)
    /\ Reply(p, [Response("toggle", 200, "") EXCEPT
                    !.url = req[p].url, !.toggled = "disabled"])
    /\ UNCHANGED <<rev, before, extraction, flyers, days, cloud, uploads, requests, failed>>

ToggleSadd(p, c) ==
    /\ AtStep(p, "toggle.sadd", c)
    /\ disabled' = SAdd(disabled, req[p].url)
    /\ Reply(p, [Response("toggle", 200, "") EXCEPT
                    !.url = req[p].url, !.toggled = "disabled"])
    /\ UNCHANGED <<rev, before, extraction, flyers, active, days, cloud, uploads, requests, failed>>

ToggleSrem(p, c) ==
    /\ AtStep(p, "toggle.srem", c)
    /\ disabled' = SRem(disabled, req[p].url)
    /\ Continue(p, Goto(req[p], "toggle.hset", {"hset"}))
    /\ UNCHANGED <<rev, before, extraction, flyers, active, days, cloud, uploads, requests, failed>>

ToggleHset(p, c) ==
    /\ AtStep(p, "toggle.hset", c)
    /\ days' = HSet(days, req[p].url, req[p].day)
    /\ Continue(p, Goto(req[p], "toggle.zscore", {"zscore"}))
    /\ UNCHANGED <<rev, before, extraction, flyers, active, disabled, cloud, uploads, requests, failed>>

ToggleZscore(p, c) ==
    LET r == req[p] IN
    /\ AtStep(p, "toggle.zscore", c)
    /\ IF ZScore(active, r.url) = Null
       THEN Continue(p, Goto(r, "toggle.tracker", {"zscore"}))
       ELSE Reply(p, [Response("toggle", 200, "") EXCEPT
                        !.url = r.url, !.day = r.day, !.toggled = "active"])
    /\ UNCHANGED <<rev, before, extraction, flyers, stores, uploads, requests, failed>>

ToggleTracker(p, c) ==
    /\ AtStep(p, "toggle.tracker", c)
    /\ Continue(p, Goto([req[p] EXCEPT
            !.newPosition = NextScore(ZScore(active, LAST_SCORE_TRACKER))],
          "toggle.zadd", {"zadd"}))
    /\ UNCHANGED <<rev, before, extraction, flyers, stores, uploads, requests, failed>>

ToggleZadd(p, c) ==
    /\ AtStep(p, "toggle.zadd", c)
    /\ active' = ZAdd(active, req[p].newPosition, req[p].url)
    /\ Continue(p, Goto(req[p], "toggle.track", {"zadd"}))
    /\ UNCHANGED <<rev, before, extraction, flyers, days, disabled, cloud, uploads, requests, failed>>

ToggleTrack(p, c) ==
    LET r == req[p] IN
    /\ AtStep(p, "toggle.track", c)
    /\ active' = ZAdd(active, r.newPosition, LAST_SCORE_TRACKER)
    /\ Reply(p, [Response("toggle", 200, "") EXCEPT
                    !.url = r.url, !.day = r.day, !.toggled = "active"])
    /\ UNCHANGED <<rev, before, extraction, flyers, days, disabled, cloud, uploads, requests, failed>>

\* PUT /api/banners/day
BeginToggleDay(p, url, day) ==
    /\ rev = "toggle"
    /\ Start(p)
    /\ IF url = "" \/ day = ""
       THEN Reply(p, Response("updateDay", 400, "invalid url or day"))
       ELSE Continue(p, Goto([IdleReq EXCEPT !.op = "updateDay", !.url = url,
                                             !.day = day],
                "tday.hset", {"hset"}))
    /\ UNCHANGED uploads

ToggleDayHset(p, c) ==
    LET r == req[p] IN
    /\ AtStep(p, "tday.hset", c)
    /\ days' = HSet(days, r.url, r.day)
    /\ Reply(p, [Response("updateDay", 200, "") EXCEPT !.url = r.url, !.day = r.day])
    /\ UNCHANGED <<rev, before, extraction, flyers, active, disabled, cloud, uploads, requests, failed>>

\* DELETE /api/banners/:url
BeginToggleDestroy(p, url) ==
    /\ rev = "toggle"
    /\ Start(p)
    /\ Continue(p, Goto([IdleReq EXCEPT !.op = "destroy", !.url = url,
                                         !.again = JustDestroyed(url)],
                "tdestroy.remove", {"zrem", "hdel", "srem"}))
    /\ UNCHANGED uploads

ToggleDestroyRemove(p, c) ==
    LET r == req[p]
        r1 == [r EXCEPT
                !.pend = @ \ {c},
                !.removedActive = IF c # "zrem" THEN @
                                  ELSE IF r.url \in DOMAIN active THEN 1 ELSE 0,
                !.removedDayRule = IF c # "hdel" THEN @
                                   ELSE IF r.url \in DOMAIN days THEN 1 ELSE 0,
                !.removedDisabled = IF c # "srem" THEN @
                                    ELSE IF r.url \in disabled THEN 1 ELSE 0]
    IN  /\ AtStep(p, "tdestroy.remove", c)
        /\ active' = IF c = "zrem" THEN ZRem(active, r.url) ELSE active
        /\ days' = IF c = "hdel" THEN HDel(days, r.url) ELSE days
        /\ disabled' = IF c = "srem" THEN SRem(disabled, r.url) ELSE disabled
        /\ Continue(p, IF r1.pend # {} THEN r1
                       ELSE Goto(r1, "tdestroy.media", {"destroy"}))
        /\ UNCHANGED <<rev, before, extraction, flyers, cloud, uploads, requests, failed>>

ToggleDestroyMedia(p, c, result) ==
    LET r == req[p]
        publicId == TogglePublicId(r.url)
        redisRemoved == r.removedActive + r.removedDayRule + r.removedDisabled
    IN  /\ AtStep(p, "tdestroy.media", c)
        /\ result \in DestroyResults(publicId)
        /\ cloud' = IF result = "ok" THEN cloud \ {publicId} ELSE cloud
        /\ IF result # "not found" /\ result # "ok"
           THEN Reply(p, [Response("destroy", 200, "cloudinary error") EXCEPT
                            !.url = r.url, !.cloudinaryStatus = result])
           ELSE Reply(p, [Response("destroy", 200, "") EXCEPT
                            !.url = r.url, !.redisRemoved = <<redisRemoved>>,
                            !.cloudinaryStatus = "ok"])
        /\ UNCHANGED <<rev, before, extraction, flyers, active, days, disabled, uploads, requests, failed>>

\* GET /api/banners and GET /api/banners/all
\* `bannerDaysConfig[url] || 'ALL'`
DayConfig(bannerDaysConfig, url) ==
    IF url \in DOMAIN bannerDaysConfig THEN bannerDaysConfig[url] ELSE "ALL"

\* The members of a set of urls in one order (smembers promises none).
RECURSIVE SetToSeq(_)
SetToSeq(S) ==
    IF S = {} THEN <<>>
    ELSE LET u == CHOOSE x \in S : \A y \in S : MemberRank(x) <= MemberRank(y)
         IN  <<u>> \o SetToSeq(S \ {u})

\* The body of GET /api/banners.
bannersForToday(activeBanners, bannerDaysConfig, disabledBanners, dayOfWeek) ==
    UrlsOf(SelectSeq(activeBanners, LAMBDA b :
        /\ b.url \notin disabledBanners
        /\ DayConfig(bannerDaysConfig, b.url) \in {"ALL", dayOfWeek}))

\* The body of GET /api/banners/all.
allBanners(activeBanners, bannerDaysConfig, disabledBanners) ==
    [i \in DOMAIN activeBanners |->
        [url |-> activeBanners[i].url,
         day |-> DayConfig(bannerDaysConfig, activeBanners[i].url),
         position |-> i - 1,
         status |-> IF activeBanners[i].url \in disabledBanners
                    THEN "disabled" ELSE "active"]]
    \o
    LET rest == SetToSeq(disabledBanners \ Range(UrlsOf(activeBanners)))
    IN  [i \in DOMAIN rest |->
            [url |-> rest[i], day |-> DayConfig(bannerDaysConfig, rest[i]),
             position |-> -1, status |-> "disabled"]]

ToggleListResponse(r, activeBanners, bannerDaysConfig, disabledBanners) ==
    IF r.op = "listAll"
    THEN [Response("listAll", 200, "") EXCEPT
            !.banners = allBanners(activeBanners, bannerDaysConfig, disabledBanners)]
    ELSE [Response("list", 200, "") EXCEPT
            !.banners = bannersForToday(activeBanners, bannerDaysConfig,
                                        disabledBanners, DAYS_MAP[r.today])]

BeginToggleList(p, today) ==
    /\ rev = "toggle"
    /\ Start(p)
    /\ Continue(p, Goto([IdleReq EXCEPT !.op = "list", !.today = today],
                        "tlist.zrange", {"zrange"}))
    /\ UNCHANGED uploads

BeginToggleListAll(p) ==
    /\ rev = "toggle"
    /\ Start(p)
    /\ Continue(p, Goto([IdleReq EXCEPT !.op = "listAll"], "tlist.zrange", {"zrange"}))
    /\ UNCHANGED uploads

ToggleListZrange(p, c) ==
    /\ AtStep(p, "tlist.zrange", c)
    /\ Continue(p, Goto([req[p] EXCEPT !.zgetData = ZRange(active)],
                        "tlist.hgetall", {"hgetall"}))
    /\ UNCHANGED <<rev, before, extraction, flyers, stores, uploads, requests, failed>>

ToggleListHgetall(p, c) ==
    /\ AtStep(p, "tlist.hgetall", c)
    /\ Continue(p, Goto([req[p] EXCEPT !.bannerDaysConfig =
                            IF HGetAll(days) = Null THEN <<>> ELSE HGetAll(days)[1]],
                        "tlist.smembers", {"smembers"}))
    /\ UNCHANGED <<rev, before, extraction, flyers, stores, uploads, requests, failed>>

ToggleListSmembers(p, c) ==
    LET r == req[p] IN
    /\ AtStep(p, "tlist.smembers", c)
    /\ Reply(p, ToggleListResponse(r, r.zgetData, r.bannerDaysConfig,
                                   SMembers(disabled)))
    /\ UNCHANGED <<rev, before, extraction, flyers, stores, uploads, requests, failed>>

\* What GET /api/banners (op "list") or GET /api/banners/all (op "listAll")
\* of the toggle revision answers when it runs alone from the present state.
ToggleListNow(op, today) ==
    ToggleListResponse([IdleReq EXCEPT !.op = op, !.today = today], ZRange(active),
                       IF HGetAll(days) = Null THEN <<>> ELSE HGetAll(days)[1],
                       SMembers(disabled))

\* ------------------------- the flyers of src/unnamed/part_001 (/api/encartes)
\* `${ENCARTE_FOLDER}/${filenameWithExt.split('.')[0]}`
EncartePublicId(u) ==
    LET parts == Split(UrlChars(u))
        filenameWithExt == parts[Len(parts)]
        I == {i \in DOMAIN filenameWithExt : filenameWithExt[i] = "."}
    IN  <<ENCARTE_FOLDER, "/">> \o
        (IF I = {} THEN filenameWithExt
         ELSE SubSeq(filenameWithExt, 1, (CHOOSE i \in I : \A j \in I : i <= j) - 1))

\* POST /api/encartes
BeginEncarteUpload(p, hasFile) ==
    /\ rev = "toggle"
    /\ Start(p)
    /\ IF ~hasFile
       THEN Reply(p, Response("encarteUpload", 400, "no file")) /\ UNCHANGED uploads
       ELSE /\ uploads < Len(UploadUrls)
            /\ uploads' = uploads + 1
            /\ Continue(p, Goto([IdleReq EXCEPT !.op = "encarteUpload",
                                                !.url = UploadUrls[uploads + 1]],
                                "encarte.upload", {"upload"}))

EncarteUpload(p, c) ==
    /\ AtStep(p, "encarte.upload", c)
    /\ cloud' = cloud \cup {EncartePublicId(req[p].url)}
    /\ Continue(p, Goto(req[p], "encarte.lpush", {"lpush"}))
    /\ UNCHANGED <<rev, before, extraction, flyers, active, days, disabled, uploads, requests, failed>>

EncarteLpush(p, c) ==
    LET r == req[p] IN
    /\ AtStep(p, "encarte.lpush", c)
    /\ encartes' = <<r.url>> \o encartes
    /\ added' = added \cup {r.url}
    /\ Reply(p, [Response("encarteUpload", 201, "") EXCEPT !.url = r.url])
    /\ UNCHANGED <<rev, before, extraction, stores, asked, uploads, requests, failed>>

\* clearAllEncartes, started by the cron schedule on connection p; it answers
\* nobody: the response of the model only marks its end.
BeginSweep(p) ==
    /\ rev = "toggle"
    /\ Start(p)
    /\ Continue(p, Goto([IdleReq EXCEPT !.op = "sweep"], "sweep.lrange", {"lrange"}))
    /\ UNCHANGED uploads

SweepLrange(p, c) ==
    LET encarteUrls == encartes IN
    /\ AtStep(p, "sweep.lrange", c)
    /\ IF Len(encarteUrls) = 0
       THEN Reply(p, Response("sweep", 0, "nothing"))
       ELSE Continue(p, Goto([req[p] EXCEPT !.orderedUrls = encarteUrls],
                             "sweep.delete", {"delete_resources"}))
    /\ UNCHANGED <<rev, before, extraction, flyers, stores, uploads, requests, failed>>

SweepDelete(p, c) ==
    LET encarteUrls == req[p].orderedUrls
        publicIds == {EncartePublicId(encarteUrls[i]) : i \in DOMAIN encarteUrls}
    IN  /\ AtStep(p, "sweep.delete", c)
        /\ cloud' = cloud \ publicIds
        /\ asked' = asked \cup Range(encarteUrls)
        /\ Continue(p, Goto(req[p], "sweep.del", {"del"}))
        /\ UNCHANGED <<rev, before, extraction, active, days, disabled, encartes, added, uploads,
                       requests, failed>>

SweepDel(p, c) ==
    /\ AtStep(p, "sweep.del", c)
    /\ encartes' = <<>>
    /\ Reply(p, Response("sweep", 0, "done"))
    /\ UNCHANGED <<rev, before, extraction, stores, added, asked, uploads, requests, failed>>

\* ------------------------------------------------- the full-wipe cleanup
\* GET /api/cleanup of the first revision of src/Server.js (rev "noday") and
\* POST /api/banners/cleanup of the second revision of src/unnamed/part_001
\* (rev "clean": its other routes are those of src/Server.js 442-902).
CleanupRevisions == {"noday", "clean"}

\* What cloudinary.api.delete_resources_by_tag may answer: everything deleted,
\* `partial: true` with resources left, or a rejection.
TagDeleteResults == {"ok", "partial", "error"}

\* The media objects left after the bulk deletion answered result: every
\* upload of these revisions carries FOLDER_TAG.
AfterTagDelete(result) ==
    IF result = "ok" THEN {{}}
    ELSE IF result = "partial" THEN SUBSET cloud \ {{}}
    ELSE {cloud}

\* cleanupResults.cloudinary.status of performDailyCleanup.
CloudinaryCleanupStatus(result) ==
    IF result = "partial" THEN "partial_failure" ELSE result

\* The answer of POST /api/banners/cleanup to the two statuses.
CleanupResponse(cloudinaryStatus, redisStatus) ==
    [Response("cleanup", IF cloudinaryStatus # "ok" /\ redisStatus # "ok"
                         THEN 500 ELSE 200, "")
        EXCEPT !.cloudinaryStatus = cloudinaryStatus, !.redisStatus = redisStatus]

BeginCleanup(p) ==
    /\ rev \in CleanupRevisions
    /\ Start(p)
    /\ Continue(p, Goto([IdleReq EXCEPT !.op = "cleanup"],
                        "cleanup.bytag", {"delete_resources_by_tag"}))
    /\ UNCHANGED uploads

CleanupByTag(p, c, result) ==
    LET r == req[p] IN
    /\ r.pc = "cleanup.bytag" /\ c \in Ready(r)
    /\ result \in TagDeleteResults
    /\ cloud' \in AfterTagDelete(result)
    /\ IF rev = "noday" /\ result = "error"
       THEN Reply(p, Response("cleanup", 500, "Falha na limpeza"))
       ELSE Continue(p, Goto([r EXCEPT !.status = CloudinaryCleanupStatus(result)],
                             IF rev = "noday" THEN "cleanup.del" ELSE "cleanup.delActive",
                             {"del"}))
    /\ UNCHANGED <<rev, before, extraction, flyers, active, days, disabled, uploads, requests, failed>>

\* `redis.del(ACTIVE_BANNERS_KEY, DISABLED_BANNERS_KEY)` of deleteAllBanners.
CleanupDel(p, c, fails) ==
    LET r == req[p] IN
    /\ r.pc = "cleanup.del" /\ c \in Ready(r)
    /\ IF fails
       THEN /\ Reply(p, Response("cleanup", 500, "Falha na limpeza"))
            /\ UNCHANGED <<active, disabled>>
       ELSE /\ active' = <<>>
            /\ disabled' = {}
            /\ Reply(p, [Response("cleanup", 200, "") EXCEPT !.cloudinaryStatus = "ok",
                                                            !.redisStatus = "ok"])
    /\ UNCHANGED <<rev, before, extraction, flyers, days, cloud, uploads, requests, failed>>

\* The three `redis.del` of performDailyCleanup, in one try block.
CleanupDelActive(p, c, fails) ==
    LET r == req[p] IN
    /\ r.pc = "cleanup.delActive" /\ c \in Ready(r)
    /\ IF fails
       THEN Reply(p, CleanupResponse(r.status, "error")) /\ UNCHANGED active
       ELSE active' = <<>> /\ Continue(p, Goto(r, "cleanup.delDays", {"del"}))
    /\ UNCHANGED <<rev, before, extraction, flyers, days, disabled, cloud, uploads, requests, failed>>

CleanupDelDays(p, c, fails) ==
    LET r == req[p] IN
    /\ r.pc = "cleanup.delDays" /\ c \in Ready(r)
    /\ IF fails
       THEN Reply(p, CleanupResponse(r.status, "error")) /\ UNCHANGED days
       ELSE days' = <<>> /\ Continue(p, Goto(r, "cleanup.delDisabled", {"del"}))
    /\ UNCHANGED <<rev, before, extraction, flyers, active, disabled, cloud, uploads, requests, failed>>

CleanupDelDisabled(p, c, fails) ==
    LET r == req[p] IN
    /\ r.pc = "cleanup.delDisabled" /\ c \in Ready(r)
    /\ IF fails
       THEN Reply(p, CleanupResponse(r.status, "error")) /\ UNCHANGED disabled
       ELSE disabled' = {} /\ Reply(p, CleanupResponse(r.status, "ok"))
    /\ UNCHANGED <<rev, before, extraction, flyers, active, days, cloud, uploads, requests, failed>>

\* ------------------------------------------------------- failing calls
\* The call c of p's step throws (the store or the network fails).
Throw(p, c) ==
    LET r == req[p]
        r1 == [r EXCEPT !.pend = @ \ {c}, !.err = TRUE,
                        !.threw = IF r.err THEN @ ELSE c]
    IN  /\ r.pc # "idle" /\ c \in Ready(r)
        /\ failed' = TRUE
        /\ IF rev = "par" /\ r1.pend # {} THEN Continue(p, r1)
           ELSE Reply(p, [Response(r.op, 500, "catch") EXCEPT
                            !.url = r.url, !.threw = r1.threw])
        /\ UNCHANGED <<rev, before, extraction, flyers, stores, uploads, requests>>

\* ---------------------------------------------------------- behaviours
Calls ==
    {"upload", "zcard", "zadd", "hset", "zrange", "hgetall", "smembers", "zrem",
     "hdel", "sismember", "sadd", "srem", "zscore", "destroy", "del",
     "delete_resources_by_tag", "lpush", "lrange", "delete_resources"}

UrlInputs == KnownUrls \cup {""}

\* Urls the stores hold or a create returned.
StoredUrls == created \cup DOMAIN active \cup disabled

CreateSteps(p) ==
    \E c \in Calls : CreateUpload(p, c) \/ CreateZcard(p, c) \/ CreateWrite(p, c)

DisableSteps(p) ==
    \E c \in Calls : DisableRemove(p, c) \/ DisableSismember(p, c) \/ DisableSadd(p, c)

EnableSteps(p) ==
    \E c \in Calls :
        EnableSrem(p, c) \/ EnableZscore(p, c) \/ EnableZcard(p, c) \/ EnableWrite(p, c)

UpdateDaySteps(p) ==
    \E c \in Calls : UpdateDayZscore(p, c) \/ UpdateDayHset(p, c)

ReorderSteps(p) == \E c \in Calls : ReorderZadd(p, c)

DestroySteps(p) ==
    \E c \in Calls :
        \/ DestroyRemove(p, c)
        \/ \E result \in {"ok", "not found", "error"} : DestroyMedia(p, c, result)

ListSteps(p) ==
    \E c \in Calls : ListZrange(p, c) \/ ListHgetall(p, c) \/ ListSmembers(p, c)

\* A request that changes the stores begins on connection p.
BeginWrite(p) ==
    \/ \E hasFile \in BOOLEAN, day \in CreateDays :
            uploads < MaxUploads /\ BeginCreate(p, hasFile, day)
    \/ \E url \in UrlInputs : BeginDisable(p, url)
    \/ \E url \in UrlInputs, day \in EnableDays : BeginEnable(p, url, day)
    \/ \E url \in UrlInputs, day \in UpdateDays : BeginUpdateDay(p, url, day)
    \/ \E isArray \in BOOLEAN, l \in ReorderLists(KnownUrls) : BeginReorder(p, isArray, l)
    \/ \E url \in UrlInputs : BeginDestroy(p, url)

\* A listing begins on connection p.
BeginGet(p) ==
    \/ \E today \in Todays : BeginList(p, today)
    \/ BeginListAll(p)
    \/ BeginListDisabled(p)

StepWrite(p) ==
    \/ CreateSteps(p)
    \/ DisableSteps(p)
    \/ EnableSteps(p)
    \/ UpdateDaySteps(p)
    \/ ReorderSteps(p)
    \/ DestroySteps(p)

\* Requests that change the stores, one after another, no call failing.
Next ==
    \E p \in {1} :
        \/ requests < MaxRequests /\ BeginWrite(p)
        \/ StepWrite(p)

Spec == Init /\ [][Next]_vars

\* The same with the listings among them.
NextGet ==
    \E p \in {1} :
        \/ requests < MaxRequests /\ (BeginWrite(p) \/ BeginGet(p))
        \/ StepWrite(p)
        \/ ListSteps(p)

SpecGet == Init /\ [][NextGet]_vars

\* The same with store calls that may throw.
NextFail ==
    \E p \in {1} :
        \/ requests < MaxRequests /\ BeginWrite(p)
        \/ StepWrite(p)
        \/ \E c \in Calls : Throw(p, c)

SpecFail == Init /\ [][NextFail]_vars

\* Creates, disables, enables and reorders of the stored urls, one after
\* another, with store calls that may throw.
BeginFailSets(p) ==
    \/ uploads < MaxFailUploads /\ BeginCreate(p, TRUE, "")
    \/ \E url \in StoredUrls : BeginDisable(p, url)
    \/ \E url \in StoredUrls : BeginEnable(p, url, "")
    \/ \E l \in ReorderLists(StoredUrls) : BeginReorder(p, TRUE, l)

NextFailSets ==
    \E p \in {1} :
        \/ requests < MaxFailRequests /\ BeginFailSets(p)
        \/ CreateSteps(p)
        \/ DisableSteps(p)
        \/ EnableSteps(p)
        \/ ReorderSteps(p)
        \/ \E c \in Calls : Throw(p, c)

SpecFailSets == Init /\ [][NextFailSets]_vars

\* Requests on the stored urls from two connections, interleaved at every
\* store call. Connections are interchangeable: the second one is used only
\* while the first is busy.
BeginConc(p) ==
    /\ \A q \in Procs : q < p => req[q].pc # "idle"
    /\ \/ uploads < MaxUploads /\ BeginCreate(p, TRUE, "")
       \/ \E url \in StoredUrls : BeginDisable(p, url)
       \/ \E url \in StoredUrls : BeginEnable(p, url, "fri")
       \/ \E url \in StoredUrls : BeginUpdateDay(p, url, "TUE")
       \/ \E url \in StoredUrls : BeginDestroy(p, url)

NextConc ==
    \E p \in Procs :
        \/ requests < MaxRequests /\ BeginConc(p)
        \/ CreateSteps(p)
        \/ DisableSteps(p)
        \/ EnableSteps(p)
        \/ UpdateDaySteps(p)
        \/ DestroySteps(p)

SpecConc == Init /\ [][NextConc]_vars

\* Creates, disables, enables and deletes of stored urls, one after another.
BeginAppend(p) ==
    \/ uploads < MaxAppendUploads /\ BeginCreate(p, TRUE, "")
    \/ \E url \in StoredUrls : BeginDisable(p, url)
    \/ \E url \in StoredUrls : BeginEnable(p, url, "")
    \/ \E url \in StoredUrls : BeginDestroy(p, url)

NextAppend ==
    \E p \in {1} :
        \/ requests < MaxAppendRequests /\ BeginAppend(p)
        \/ CreateSteps(p)
        \/ DisableSteps(p)
        \/ EnableSteps(p)
        \/ DestroySteps(p)

SpecAppend == Init /\ [][NextAppend]_vars

\* The toggle revision: its requests one after another, no call failing.
InitToggle ==
    /\ rev = "toggle"
    /\ active = <<>>
    /\ days = <<>>
    /\ disabled = {}
    /\ cloud = {}
    /\ req = [p \in Procs |-> IdleReq]
    /\ last = NoResp
    /\ uploads = 0
    /\ requests = 0
    /\ createdDay = <<>>
    /\ destroyed = {}
    /\ failed = FALSE
    /\ encartes = <<>>
    /\ added = {}
    /\ asked = {}
    /\ input = <<>>
    /\ output = Null
    /\ before = Null
    /\ enables = Null

ToggleDays == {"", "MON", "XYZ"}

BeginToggleRequest(p) ==
    \/ \E hasFile \in BOOLEAN, day \in ToggleDays :
            uploads < MaxToggleUploads /\ BeginToggleCreate(p, hasFile, day)
    \/ \E isArray \in BOOLEAN, l \in ReorderLists(KnownUrls) :
            BeginToggleReorder(p, isArray, l)
    \/ \E url \in UrlInputs, status \in ToggleStatuses, day \in ToggleDays :
            BeginToggle(p, url, status, day)
    \/ \E url \in UrlInputs, day \in ToggleDays : BeginToggleDay(p, url, day)
    \/ \E url \in KnownUrls : BeginToggleDestroy(p, url)
    \/ \E today \in Todays : BeginToggleList(p, today)
    \/ BeginToggleListAll(p)

ToggleCreateSteps(p) ==
    \E c \in Calls :
        \/ ToggleCreateUpload(p, c) \/ ToggleCreateZscore(p, c)
        \/ ToggleCreateZadd(p, c) \/ ToggleCreateHset(p, c)
        \/ ToggleCreateTracker(p, c) \/ ToggleCreateSrem(p, c)

ToggleReorderSteps(p) ==
    \E c \in Calls : ToggleReorderDel(p, c) \/ ToggleReorderZadd(p, c)

ToggleSteps(p) ==
    \/ ToggleCreateSteps(p)
    \/ ToggleReorderSteps(p)
    \/ \E c \in Calls :
        \/ ToggleSadd(p, c) \/ ToggleSrem(p, c) \/ ToggleHset(p, c)
        \/ ToggleZscore(p, c) \/ ToggleTracker(p, c)
        \/ ToggleZadd(p, c) \/ ToggleTrack(p, c)
        \/ ToggleDayHset(p, c)
        \/ ToggleDestroyRemove(p, c)
        \/ \E result \in {"ok", "not found", "error"} : ToggleDestroyMedia(p, c, result)
        \/ ToggleListZrange(p, c) \/ ToggleListHgetall(p, c)
        \/ ToggleListSmembers(p, c)

NextToggle ==
    \E p \in {1} :
        \/ requests < MaxToggleRequests /\ BeginToggleRequest(p)
        \/ ToggleSteps(p)

SpecToggle == InitToggle /\ [][NextToggle]_vars

\* Uploads, reorders and toggles of the uploaded urls from two connections,
\* interleaved at every store call; the second connection is used only while
\* the first is busy.
ToggleSwitchSteps(p) ==
    \E c \in Calls :
        \/ ToggleSadd(p, c) \/ ToggleSrem(p, c) \/ ToggleHset(p, c)
        \/ ToggleZscore(p, c) \/ ToggleTracker(p, c)
        \/ ToggleZadd(p, c) \/ ToggleTrack(p, c)

BeginToggleConc(p) ==
    /\ \A q \in Procs : q < p => req[q].pc # "idle"
    /\ \/ uploads < MaxRaceUploads /\ BeginToggleCreate(p, TRUE, "")
       \/ \E l \in ReorderLists(created) : BeginToggleReorder(p, TRUE, l)
       \/ \E url \in created, status \in {"active", "disabled"} :
                BeginToggle(p, url, status, "")

NextToggleConc ==
    \E p \in Procs :
        \/ requests < MaxRaceRequests /\ BeginToggleConc(p)
        \/ ToggleCreateSteps(p)
        \/ ToggleReorderSteps(p)
        \/ ToggleSwitchSteps(p)

SpecToggleConc == InitToggle /\ [][NextToggleConc]_vars

\* Flyer uploads and sweeps from two connections, interleaved at every store
\* call; the second connection is used only while the first is busy.
BeginFlyers(p) ==
    /\ \A q \in Procs : q < p => req[q].pc # "idle"
    /\ \/ \E hasFile \in BOOLEAN :
                uploads < MaxFlyerUploads /\ BeginEncarteUpload(p, hasFile)
       \/ BeginSweep(p)

NextFlyers ==
    \E p \in Procs :
        \/ requests < MaxFlyerRequests /\ BeginFlyers(p)
        \/ \E c \in Calls :
            \/ EncarteUpload(p, c) \/ EncarteLpush(p, c)
            \/ SweepLrange(p, c) \/ SweepDelete(p, c) \/ SweepDel(p, c)

SpecFlyers == InitToggle /\ [][NextFlyers]_vars

\* The two extractPublicIdFromUrl applied to the same url, for every url of
\* up to MaxUrlLen tokens: "/", ".", the configured folder and another run
\* of characters.
UrlTokens == {"/", ".", CLOUDINARY_FOLDER, "a"}

UrlInputsUpTo(n) == UNION {[1..k -> UrlTokens] : k \in 0..n}

InitExtract ==
    /\ rev \in {"seq", "par"}
    /\ active = <<>>
    /\ days = <<>>
    /\ disabled = {}
    /\ cloud = {}
    /\ req = [p \in Procs |-> IdleReq]
    /\ last = NoResp
    /\ uploads = 0
    /\ requests = 0
    /\ createdDay = <<>>
    /\ destroyed = {}
    /\ failed = FALSE
    /\ encartes = <<>>
    /\ added = {}
    /\ asked = {}
    /\ input \in UrlInputsUpTo(MaxUrlLen)
    /\ output = Null
    /\ before = Null
    /\ enables = Null

Extract ==
    /\ output = Null
    /\ output' = <<[split |-> PublicIdBySplit(input),
                    indexOf |-> PublicIdByIndexOf(input)]>>
    /\ UNCHANGED <<rev, before, enables, stores, req, last, uploads, requests, createdDay,
                   destroyed, failed, flyers, input>>

SpecExtract == InitExtract /\ [][Extract]_vars

\* Every revision: uploads, removals from the listing and reorders of the
\* stored urls, one after another.
InitAny == Init \/ InitToggle

\* Lists of up to three distinct urls.
ReorderLists3(U) ==
    ReorderLists(U) \cup {l \in U \X U \X U : l[1] # l[2] /\ l[1] # l[3] /\ l[2] # l[3]}

BeginReorderRequest(p) ==
    \/ /\ rev \in Revisions
       /\ \/ uploads < MaxReorderUploads /\ BeginCreate(p, TRUE, "")
          \/ \E url \in StoredUrls : BeginDisable(p, url)
          \/ \E l \in ReorderLists3(StoredUrls) : BeginReorder(p, TRUE, l)
    \/ /\ rev = "toggle"
       /\ \/ uploads < MaxReorderUploads /\ BeginToggleCreate(p, TRUE, "")
          \/ \E url \in created : BeginToggle(p, url, "disabled", "")
          \/ \E l \in ReorderLists3(created) : BeginToggleReorder(p, TRUE, l)

NextReorder ==
    \E p \in {1} :
        \/ requests < MaxReorderRequests /\ BeginReorderRequest(p)
        \/ CreateSteps(p)
        \/ DisableSteps(p)
        \/ ReorderSteps(p)
        \/ ToggleCreateSteps(p)
        \/ ToggleReorderSteps(p)
        \/ \E c \in Calls : ToggleSadd(p, c)

SpecReorder == InitAny /\ [][NextReorder]_vars

\* Creates, disables and full-wipe cleanups, one after another; the calls of
\* a cleanup may fail.
InitCleanup ==
    /\ rev \in CleanupRevisions
    /\ active = <<>>
    /\ days = <<>>
    /\ disabled = {}
    /\ cloud = {}
    /\ req = [p \in Procs |-> IdleReq]
    /\ last = NoResp
    /\ uploads = 0
    /\ requests = 0
    /\ createdDay = <<>>
    /\ destroyed = {}
    /\ failed = FALSE
    /\ encartes = <<>>
    /\ added = {}
    /\ asked = {}
    /\ input = <<>>
    /\ output = Null
    /\ before = Null
    /\ enables = Null

BeginCleanupRequest(p) ==
    \/ uploads < MaxCleanUploads /\ BeginCreate(p, TRUE, "")
    \/ \E url \in StoredUrls : BeginDisable(p, url)
    \/ BeginCleanup(p)

CleanupSteps(p) ==
    \E c \in Calls :
        \/ \E result \in TagDeleteResults : CleanupByTag(p, c, result)
        \/ \E fails \in BOOLEAN :
            \/ CleanupDel(p, c, fails)
            \/ CleanupDelActive(p, c, fails)
            \/ CleanupDelDays(p, c, fails)
            \/ CleanupDelDisabled(p, c, fails)

NextCleanup ==
    \E p \in {1} :
        \/ requests < MaxCleanRequests /\ BeginCleanupRequest(p)
        \/ CreateSteps(p)
        \/ DisableSteps(p)
        \/ CleanupSteps(p)

SpecCleanup == InitCleanup /\ [][NextCleanup]_vars

\* ------------------------------------------- one request, run on its own
\* What a handler of the second half of src/Server.js leaves in the stores s
\* and answers when its awaits run one after another, nothing in between and
\* no call failing.
Outcome(a, d, dis, status) ==
    [active |-> a, days |-> d, disabled |-> dis, status |-> status]

CreateAlone(s, url, day) ==
    LET newPosition == ZCard(s.active)
    IN  Outcome(ZAdd(s.active, newPosition, url), HSet(s.days, url, day),
                s.disabled, 201)

DisableAlone(s, url) ==
    LET removedFromActive == IF url \in DOMAIN s.active THEN 1 ELSE 0
        a == ZRem(s.active, url)
        d == HDel(s.days, url)
    IN  IF removedFromActive = 0 THEN Outcome(a, d, s.disabled, 404)
        ELSE Outcome(a, d, SAdd(s.disabled, url), 200)

EnableAlone(s, url, day) ==
    LET removedFromDisabled == IF url \in s.disabled THEN 1 ELSE 0
        dis == SRem(s.disabled, url)
        newPosition == ZCard(s.active)
    IN  IF removedFromDisabled = 0 THEN Outcome(s.active, s.days, dis, 404)
        ELSE Outcome(ZAdd(s.active, newPosition, url), HSet(s.days, url, day),
                     dis, 200)

UpdateDayAlone(s, url, day) ==
    IF ZScore(s.active, url) = Null
    THEN Outcome(s.active, s.days, s.disabled, 404)
    ELSE Outcome(s.active, HSet(s.days, url, day), s.disabled, 200)

ReorderAlone(s, orderedUrls) ==
    IF Len(orderedUrls) = 0 THEN Outcome(s.active, s.days, s.disabled, 200)
    ELSE Outcome(ZAddMany(s.active, orderedUrls, 1), s.days, s.disabled, 200)

DestroyAlone(s, url) ==
    LET removedActive == IF url \in DOMAIN s.active THEN 1 ELSE 0
        removedDayRule == IF url \in DOMAIN s.days THEN 1 ELSE 0
        removedDisabled == IF url \in s.disabled THEN 1 ELSE 0
        redisRemoved == removedActive + removedDisabled
    IN  Outcome(ZRem(s.active, url), HDel(s.days, url), SRem(s.disabled, url),
                IF redisRemoved = 0 /\ removedDayRule = 0 THEN 404 ELSE 200)

\* The request that resp answers, run on its own from the stores s; a request
\* refused before its first store call leaves s as it is.
RunAlone(s, resp) ==
    IF resp.status = 400 THEN Outcome(s.active, s.days, s.disabled, 400)
    ELSE CASE resp.op = "create" -> CreateAlone(s, resp.url, resp.day)
           [] resp.op = "disable" -> DisableAlone(s, resp.url)
           [] resp.op = "enable" -> EnableAlone(s, resp.url, resp.day)
           [] resp.op = "updateDay" -> UpdateDayAlone(s, resp.url, resp.day)
           [] resp.op = "reorder" -> ReorderAlone(s, resp.orderedUrls)
           [] resp.op = "destroy" -> DestroyAlone(s, resp.url)

\* The two revisions with a day-rule map, their requests one after another
\* and no call failing; the stores each request starts from are kept.
InitAlone ==
    /\ rev \in {"seq", "par"}
    /\ active = <<>>
    /\ days = <<>>
    /\ disabled = {}
    /\ cloud = {}
    /\ req = [p \in Procs |-> IdleReq]
    /\ last = NoResp
    /\ uploads = 0
    /\ requests = 0
    /\ createdDay = <<>>
    /\ destroyed = {}
    /\ failed = FALSE
    /\ encartes = <<>>
    /\ added = {}
    /\ asked = {}
    /\ input = <<>>
    /\ output = Null
    /\ before = [active |-> <<>>, days |-> <<>>, disabled |-> {}]
    /\ enables = Null

BeginAlone(p) ==
    \/ \E hasFile \in BOOLEAN, day \in CreateDays :
            uploads < MaxAloneUploads /\ BeginCreate(p, hasFile, day)
    \/ \E url \in UrlInputs : BeginDisable(p, url)
    \/ \E url \in UrlInputs, day \in EnableDays : BeginEnable(p, url, day)
    \/ \E url \in UrlInputs, day \in UpdateDays : BeginUpdateDay(p, url, day)
    \/ \E isArray \in BOOLEAN, l \in ReorderLists(KnownUrls) : BeginReorder(p, isArray, l)
    \/ \E url \in UrlInputs : BeginDestroy(p, url)

NextAlone ==
    \E p \in {1} :
        \/ requests < MaxAloneRequests /\ BeginAlone(p)
        \/ StepWrite(p)

SpecAlone == InitAlone /\ [][NextAlone]_vars

\* The revisions with a day-rule map: a create, then disables and enables of
\* the stored urls from two connections, interleaved at every store call.
InitEnable ==
    /\ rev \in {"seq", "par"}
    /\ active = <<>>
    /\ days = <<>>
    /\ disabled = {}
    /\ cloud = {}
    /\ req = [p \in Procs |-> IdleReq]
    /\ last = NoResp
    /\ uploads = 0
    /\ requests = 0
    /\ createdDay = <<>>
    /\ destroyed = {}
    /\ failed = FALSE
    /\ encartes = <<>>
    /\ added = {}
    /\ asked = {}
    /\ input = <<>>
    /\ output = Null
    /\ before = Null
    /\ enables = [day |-> <<>>, during |-> {}]

BeginEnableRace(p) ==
    /\ \A q \in Procs : q < p => req[q].pc # "idle"
    /\ \/ uploads < MaxEnableUploads /\ BeginCreate(p, TRUE, "")
       \/ \E url \in StoredUrls : BeginDisable(p, url)
       \/ \E url \in StoredUrls : BeginEnable(p, url, "fri")

NextEnable ==
    \E p \in Procs :
        \/ requests < MaxEnableRequests /\ BeginEnableRace(p)
        \/ CreateSteps(p)
        \/ DisableSteps(p)
        \/ EnableSteps(p)

SpecEnable == InitEnable /\ [][NextEnable]_vars

\* The toggle revision: uploads, switches and reorders of the uploaded
\* banners, one after another; the stores each request starts from are kept.
InitSwitch ==
    /\ rev = "toggle"
    /\ active = <<>>
    /\ days = <<>>
    /\ disabled = {}
    /\ cloud = {}
    /\ req = [p \in Procs |-> IdleReq]
    /\ last = NoResp
    /\ uploads = 0
    /\ requests = 0
    /\ createdDay = <<>>
    /\ destroyed = {}
    /\ failed = FALSE
    /\ encartes = <<>>
    /\ added = {}
    /\ asked = {}
    /\ input = <<>>
    /\ output = Null
    /\ before = [active |-> <<>>, days |-> <<>>, disabled |-> {}]
    /\ enables = Null

BeginSwitch(p) ==
    \/ \E day \in ToggleDays :
            uploads < MaxSwitchUploads /\ BeginToggleCreate(p, TRUE, day)
    \/ \E l \in ReorderLists(created) : BeginToggleReorder(p, TRUE, l)
    \/ \E url \in created, status \in {"active", "disabled"}, day \in ToggleDays :
            BeginToggle(p, url, status, day)

NextSwitch ==
    \E p \in {1} :
        \/ requests < MaxSwitchRequests /\ BeginSwitch(p)
        \/ ToggleCreateSteps(p)
        \/ ToggleReorderSteps(p)
        \/ ToggleSwitchSteps(p)

SpecSwitch == InitSwitch /\ [][NextSwitch]_vars

\* ------------------------------------------------------------------ claims

\* C1: no url is at the same time a member of the active ordered-set and a
\* member of the disabled set, in every reachable state.
C1_NeverInBothSets == DOMAIN active \cap disabled = {}

\* C2: whenever no request is in progress, no two members of the active
\* ordered-set have the same score.
C2_UniquePositionsAtRest ==
    AllIdle => \A u \in DOMAIN active : \A v \in DOMAIN active :
                    u # v => active[u] # active[v]

\* C3: whenever no request is in progress and no store call has failed, every
\* url a successful create returned and no successful destroy was answered for
\* is a member of the active ordered-set or of the disabled set.
C3_NeverInNeitherSet ==
    (AllIdle /\ ~failed) =>
        \A u \in created \ destroyed : u \in DOMAIN active \/ u \in disabled

\* C3 witness: a destroy of u1 raced a disable of u1 and was answered 404,
\* both requests are over, and u1 sits in the disabled set.
C3_Witness ==
    /\ AllIdle /\ ~failed
    /\ "u1" \in created \ destroyed
    /\ "u1" \in disabled /\ "u1" \notin DOMAIN active
    /\ last.op = "destroy" /\ last.status = 404 /\ last.url = "u1"

\* Urls of the day-filtered listing GET /api/encarte gives now on weekday today.
ListedOn(today) == Range(ListNow("list", today).banners)

\* Items of the unfiltered listing GET /api/encarte/all gives now.
ListedAll == ListNow("listAll", 0).banners

\* C4: right after disable(url) is answered with success, no listing of the
\* active items contains url, whatever its day rule was, and the listing of
\* the disabled items contains it.
C4_DisabledUrlNotListed ==
    (last.op = "disable" /\ last.status = 200) =>
        /\ \A today \in 0..6 : last.url \notin ListedOn(today)
        /\ last.url \notin Range(UrlsOf(ListedAll))
        /\ last.url \in SMembers(disabled)

\* C4 witness: a url created with day MON has just been disabled.
C4_Witness ==
    /\ last.op = "disable" /\ last.status = 200
    /\ last.url \in created /\ createdDay[last.url] = "MON"
    /\ last.url \in disabled

\* C5: right after enable(url) is answered with success, the listing holds url
\* at a position that is not below the position of any other listed item.
C5_EnabledUrlIsLast ==
    (last.op = "enable" /\ last.status = 200) =>
        \E i \in DOMAIN ListedAll :
            /\ ListedAll[i].url = last.url
            /\ \A j \in DOMAIN ListedAll :
                    ListedAll[i].position >= ListedAll[j].position

\* C6: after creates only, run from the empty store, the listing gives the
\* created urls in creation order with strictly ascending positions, and
\* every day-filtered listing keeps that order.
C6_CreatesListedInOrder ==
    (AllIdle /\ requests = uploads) =>
        /\ ListNow("listAll", 0).status = 200
        /\ UrlsOf(ListedAll) = SubSeq(UploadUrls, 1, uploads)
        /\ \A i \in DOMAIN ListedAll : \A j \in DOMAIN ListedAll :
                i < j => ListedAll[i].position < ListedAll[j].position
        /\ \A today \in 0..6 :
                LET l == ListNow("list", today).banners
                IN  \A i \in DOMAIN l : \A j \in DOMAIN l :
                        i < j => MemberRank(l[i]) < MemberRank(l[j])

\* C6 witness: two creates and nothing else have run.
C6_Witness ==
    /\ AllIdle /\ requests = uploads /\ uploads = 2
    /\ UrlsOf(ListedAll) = <<"u1", "u2">>

\* C7: create and enable read the cardinality of the active ordered-set,
\* write the member with that number as score while the set still has that
\* cardinality, and answer with that number as position.
C7_PositionIsCardinalityRead ==
    [][\A p \in Procs :
        LET r == req[p]
            r2 == req'[p]
        IN  /\ (r.pc \in {"create.zcard", "enable.zcard"}
                    /\ r2.pc \in {"create.write", "enable.write"})
                => r2.newPosition = Cardinality(DOMAIN active)
            /\ (r.pc \in {"create.write", "enable.write"}
                    /\ "zadd" \in r.pend /\ "zadd" \notin r2.pend)
                => /\ r.newPosition = Cardinality(DOMAIN active)
                   /\ r.url \in DOMAIN active'
                   /\ active'[r.url] = r.newPosition
            /\ (r.pc \in {"create.write", "enable.write"} /\ r2.pc = "idle")
                => /\ last'.status \in {200, 201}
                   /\ last'.url = r.url
                   /\ last'.position = <<r.newPosition>>
    ]_vars

\* C7 witness: an enable has answered a position above 0, which is the score
\* the url now has.
C7_Witness ==
    /\ last.op = "enable" /\ last.status = 200
    /\ last.position # Null /\ last.position[1] > 0
    /\ active[last.url] = last.position[1]

\* The listing b holds every member of the active ordered-set exactly once,
\* by ascending score, each with its stored day or ALL.
ListsEveryMember(b) ==
    /\ Len(b) = Cardinality(DOMAIN active)
    /\ Range(UrlsOf(b)) = DOMAIN active
    /\ \A i \in DOMAIN b : \A j \in DOMAIN b : i < j => b[i].position <= b[j].position
    /\ \A i \in DOMAIN b :
        /\ b[i].position = active[b[i].url]
        /\ rev # "noday" =>
              b[i].day = IF b[i].url \in DOMAIN days THEN days[b[i].url] ELSE "ALL"

\* C8: the listing of the active items answers with every member of the
\* active ordered-set exactly once, by ascending score, each with its stored
\* day or ALL when the day-rule map has no entry for it.
C8_ListingHoldsEveryMember ==
    last.op = "listAll" => last.status = 200 /\ ListsEveryMember(last.banners)

\* C9: right after updateDay(url, d) is answered with success the day-rule
\* map holds d for url, and the day-filtered listing holds url exactly on the
\* weekdays d allows (d = TUE: not on a Monday, on a Tuesday).
C9_UpdateDayRoundTrip ==
    (last.op = "updateDay" /\ last.status = 200) =>
        /\ last.url \in DOMAIN days /\ days[last.url] = last.day
        /\ \A today \in 0..6 :
                last.url \in ListedOn(today)
                    <=> (last.day = "ALL" \/ last.day = DAYS_MAP[today])

\* C9 witness: u1 was created with MON and the next request set it to TUE.
C9_Witness ==
    /\ requests = 2 /\ "u1" \in created /\ createdDay["u1"] = "MON"
    /\ last.op = "updateDay" /\ last.status = 200
    /\ last.url = "u1" /\ last.day = "TUE"
    /\ days["u1"] = "TUE" /\ "u1" \notin ListedOn(1) /\ "u1" \in ListedOn(2)

\* C10: right after enable(url, d) is answered with success the day-filtered
\* listing holds url exactly on the weekdays d allows (d = FRI: on a Friday,
\* not on a Saturday), and an active url whose day is ALL is listed on every
\* weekday.
C10_EnableDayFilter ==
    /\ (last.op = "enable" /\ last.status = 200 /\ rev # "noday") =>
            \A today \in 0..6 :
                last.url \in ListedOn(today)
                    <=> (last.day = "ALL" \/ last.day = DAYS_MAP[today])
    /\ \A u \in DOMAIN active :
            (u \in DOMAIN days /\ days[u] = "ALL") =>
                \A today \in 0..6 : u \in ListedOn(today)

\* C10 witness: u1 was created with ALL, disabled, and enabled with FRI.
C10_Witness ==
    /\ requests = 3 /\ "u1" \in created /\ createdDay["u1"] = "ALL"
    /\ last.op = "enable" /\ last.status = 200
    /\ last.url = "u1" /\ last.day = "FRI"
    /\ "u1" \in ListedOn(5) /\ "u1" \notin ListedOn(6)

\* C11: a DELETE of the url whose DELETE was answered just before reports
\* that nothing was there to remove: it answers 404 or a count of zero
\* removed entries.
C11_SecondDestroyRemovesNothing ==
    (last.op = "destroy" /\ last.again) =>
        \/ last.status = 404
        \/ last.status = 200 /\ last.redisRemoved = <<0>>

\* What the listing of all active items answers now, in the revision deployed.
ListAllNow ==
    IF rev = "toggle" THEN ToggleListNow("listAll", 0) ELSE ListNow("listAll", 0)

\* The urls of l occur in s, in the order of l.
InOrderIn(l, s) ==
    \E f \in [DOMAIN l -> DOMAIN s] :
        /\ \A i \in DOMAIN l : s[f[i]] = l[i]
        /\ \A i \in DOMAIN l : \A j \in DOMAIN l : i < j => f[i] < f[j]

InNoStructure(url) ==
    url \notin DOMAIN active /\ url \notin DOMAIN days /\ url \notin disabled

\* C13: a DELETE of a stored url from which no public_id can be extracted is
\* answered 200 with the count of removed entries and the note that the
\* extraction failed, never reaches the call of the media store, and leaves
\* the url in none of the three metadata structures.
C13_ExtractionFailureSkipsMedia ==
    /\ \A p \in Procs : req[p].pc = "destroy.media" => req[p].url # ForeignUrl
    /\ (last.op = "destroy" /\ last.status = 200 /\ last.url = ForeignUrl) =>
            /\ last.error = "no public_id"
            /\ last.cloudinaryStatus = ""
            /\ last.redisRemoved # Null /\ last.redisRemoved[1] > 0
            /\ InNoStructure(ForeignUrl)

\* C13 witness: the url without the folder segment was a member of the active
\* ordered-set and its DELETE has been answered 200.
C13_Witness ==
    /\ rev \in Revisions
    /\ last.op = "destroy" /\ last.status = 200 /\ last.url = ForeignUrl
    /\ last.redisRemoved = <<1>> /\ last.error = "no public_id"
    /\ extractPublicIdFromUrl(rev, ForeignUrl) = Null

\* C14: a DELETE that has removed the metadata and reached the call of the
\* media store is answered 200 with a status that tells what the media store
\* answered, whatever that was, and the url is in none of the three metadata
\* structures.
C14_MediaOutcomeAnswered200 ==
    (last.op = "destroy" /\ last.at = "destroy.media") =>
        /\ InNoStructure(last.url)
        /\ last.status = 200
        /\ last.cloudinaryStatus = last.mediaResult

\* C15: in the revisions of src/Server.js and src/unnamed/part_000 DELETE
\* answers 404, without asking the Media Store for a deletion, exactly when
\* its removals from the active set, the day-rule map and the disabled set
\* removed nothing in total; when they removed something it goes on to the
\* identifier extraction and the media deletion, and a request that waits for
\* the media deletion has removed something.
C15_NotFoundIffNothingRemoved ==
    /\ \A p \in Procs : req[p].pc = "destroy.media" => RemovedInTotal(req[p]) > 0
    /\ (last.op = "destroy" /\ last.removed # Null) =>
            /\ last.status = 404 <=> last.removed = <<0>>
            /\ last.status = 404 => last.at = "destroy.remove"
            /\ last.status # 404 =>
                    \/ last.at = "destroy.media"
                    \/ extractPublicIdFromUrl(rev, last.url) = Null

\* DELETE of a url that only the day-rule map still held was answered after
\* the media deletion.
C15_Witness ==
    /\ last.op = "destroy" /\ last.at = "destroy.media"
    /\ last.removed = <<1>> /\ last.redisRemoved = <<0>>

\* C16: every 200 answer of DELETE carries redisRemoved, the number of
\* entries its removals took out of the metadata structures, also when the
\* media deletion was skipped or answered something other than ok.
C16_EveryOkReportsRemoved ==
    (last.op = "destroy" /\ last.status = 200) => last.redisRemoved # Null

\* The step answers p's request.
Answers(p) == req[p].pc # "idle" /\ req'[p].pc = "idle"

\* C17: disable answers 200 with url in the disabled set exactly when its
\* zrem on the active set removed url; when the zrem removed nothing the
\* disabled set is left as it was and the answer is 404, "already disabled"
\* when url is a member of the disabled set and "not found" otherwise; no
\* step of a disable adds anything but url, after a zrem that removed it.
C17_DisableFollowsRemoval ==
    [][\A p \in Procs : (req[p].op = "disable" /\ req'[p] # req[p]) =>
            /\ disabled' # disabled =>
                    /\ req[p].removedActive = 1
                    /\ disabled' = disabled \cup {req[p].url}
            /\ Answers(p) =>
                    IF req[p].removedActive = 1
                    THEN last'.status = 200 /\ req[p].url \in disabled'
                    ELSE /\ last'.status = 404
                         /\ disabled' = disabled
                         /\ last'.error = IF req[p].url \in disabled
                                          THEN "already disabled" ELSE "not found"]_vars

\* A disable of a disabled url was answered "already disabled".
C17_Witness ==
    /\ last.op = "disable" /\ last.status = 404 /\ last.error = "already disabled"
    /\ last.url \in disabled

\* C18: enable answers 200 exactly when its srem on the disabled set removed
\* url; when the srem removed nothing the active set and the day-rule map are
\* left as they were and the answer is 404, "already active" when url is a
\* member of the active set and "not found" otherwise.
C18_EnableFollowsRemoval ==
    [][\A p \in Procs : (req[p].op = "enable" /\ req'[p] # req[p]) =>
            /\ req[p].pc = "enable.srem" =>
                    req'[p].removedDisabled = (IF req[p].url \in disabled THEN 1 ELSE 0)
            /\ (active' # active \/ days' # days) => req[p].removedDisabled = 1
            /\ Answers(p) =>
                    IF req[p].removedDisabled = 1
                    THEN last'.status = 200 /\ req[p].url \in DOMAIN active'
                    ELSE /\ last'.status = 404
                         /\ last'.error = IF req[p].url \in DOMAIN active
                                          THEN "already active" ELSE "not found"]_vars

\* An enable of an active url was answered "already active".
C18_Witness ==
    /\ last.op = "enable" /\ last.status = 404 /\ last.error = "already active"
    /\ last.url \in DOMAIN active

\* C19: a day update of a url that is not a member of the active set is
\* answered 404 and one that is answered 200 names a member of the active
\* set (requests served one after another, so the active set the answer is
\* compared with is the one the request met).
C19_UpdateDayNeedsActiveUrl ==
    (last.op = "updateDay" /\ last.status # 400) =>
        /\ last.status = 200 <=> last.url \in DOMAIN active
        /\ last.status # 200 => last.status = 404

\* C20: a create, enable or day update is accepted only with a day of the
\* closed set SUN..SAT, ALL (a request with any other day is answered 400
\* before a store is called), in the revisions that take a day.
C20_AcceptedDayIsValid ==
    (/\ last.op \in {"create", "enable", "updateDay"}
     /\ last.status \in {200, 201}
     /\ rev # "noday") => last.day \in VALID_DAYS

\* C21: what DELETE decides for a url (not found, or found and whether the
\* Media Store is asked for a deletion) is the same in two store states that
\* differ only in the day-rule map: here the present state, no request in
\* progress, and the one without url's day-rule entry.
C21_DayRulesDecideNothing ==
    AllIdle => \A url \in KnownUrls :
        DestroyDecision(url, active, days, disabled)
            = DestroyDecision(url, active, HDel(days, url), disabled)

\* C22: in the revisions with a day-rule map, whenever no request is in
\* progress every url with an entry in the day-rule map is a member of the
\* active set, whatever the interleaving of the requests.
C22_DayRulesOnlyForActive ==
    (rev # "noday" /\ AllIdle) => DOMAIN days \subseteq DOMAIN active

\* C23: when a cleanup request has been answered with success, no tagged
\* media object is left in the Media Store and the active set, the disabled
\* set and the day-rule map are gone from the metadata store.
C23_CleanupSuccessWipesAll ==
    (last.op = "cleanup" /\ last.status = 200) =>
        cloud = {} /\ active = <<>> /\ disabled = {} /\ days = <<>>

\* p has read the cardinality and its zadd has not reached the store.
HoldsPosition(p) ==
    req[p].pc \in {"create.write", "enable.write"} /\ "zadd" \in req[p].pend

\* The step is p's read of the cardinality.
ReadsCardinality(p) ==
    /\ req[p].pc \in {"create.zcard", "enable.zcard"}
    /\ req'[p].pc \in {"create.write", "enable.write"}

\* The step is p's zadd.
WritesPosition(p) ==
    HoldsPosition(p) /\ (req'[p].pc = "idle" \/ "zadd" \notin req'[p].pend)

\* C24: a create or enable that reads the cardinality while another one has
\* read it and not yet written is given the same position, and each zadd
\* writes the position that was read, whatever scores the set holds by then
\* and without changing them: the two urls end up with the same score.
C24_ConcurrentReadsSamePosition ==
    [][\A p \in Procs :
        /\ \A q \in Procs \ {p} :
                (/\ ReadsCardinality(p) /\ HoldsPosition(q)
                 /\ req[q].newPosition = Cardinality(DOMAIN active))
                    => req'[p].newPosition = req[q].newPosition
        /\ WritesPosition(p) =>
                /\ active'[req[p].url] = req[p].newPosition
                /\ \A u \in DOMAIN active \ {req[p].url} :
                        u \in DOMAIN active' /\ active'[u] = active[u]]_vars

\* Two urls are at position 0 with no request in progress: both requests
\* read the cardinality of the empty set.
C24_Witness ==
    /\ AllIdle
    /\ \E u \in DOMAIN active : \E v \in DOMAIN active :
            u # v /\ active[u] = 0 /\ active[v] = 0

C26_ReorderWritesOnlyItsList ==
    [][\A p \in Procs :
        /\ (req[p].pc = "reorder.zadd" /\ Answers(p) /\ last'.status = 200) =>
            LET L == req[p].orderedUrls IN
                /\ \A i \in DOMAIN L : active'[L[i]] = i - 1
                /\ DOMAIN active' = DOMAIN active \cup Range(L)
                /\ \A u \in DOMAIN active \ Range(L) : active'[u] = active[u]
                /\ days' = days /\ disabled' = disabled
        /\ (req[p].pc = "idle" /\ last'.op = "reorder" /\ last'.error = "nothing") =>
                UNCHANGED stores]_vars

\* A reorder of two urls was answered while a third url was a member of the
\* active set.
C26_Witness ==
    /\ rev \in Revisions
    /\ last.op = "reorder" /\ last.status = 200 /\ Len(last.orderedUrls) = 2
    /\ DOMAIN active \ Range(last.orderedUrls) # {}

\* C27: in the revision of src/unnamed/part_001, when a reorder has been
\* answered the banners of the active set are exactly the urls of its list,
\* the i-th of them (counted from 0) with score i + 1, whatever other
\* request ran between its del and its zadd (the list naming banners only).
C27_ReorderReplacesAll ==
    (/\ rev = "toggle" /\ last.op = "reorder" /\ last.status = 200
     /\ LAST_SCORE_TRACKER \notin Range(last.orderedUrls)) =>
        /\ DOMAIN active \ {LAST_SCORE_TRACKER} = Range(last.orderedUrls)
        /\ \A i \in DOMAIN last.orderedUrls : active[last.orderedUrls[i]] = i

\* C28: whenever no upload and no sweep is in progress, every flyer url an
\* upload has pushed on the list and the list no longer holds is one whose
\* media object a Media Store delete was asked for, whatever the interleaving
\* of the uploads with the sweep's read of the list and its delete of the key.
C28_SweptFlyersWereAskedFor ==
    AllIdle => \A u \in added : u \in Range(encartes) \/ u \in asked

\* C29: in the revisions with a day-rule map, the updatedCount a reorder
\* answers is the number of distinct urls of its list, whether or not they
\* were members of the active set.
C29_UpdatedCountIsListLength ==
    (/\ rev # "noday" /\ last.op = "reorder" /\ last.status = 200
     /\ last.updatedCount # Null) =>
        last.updatedCount = <<Cardinality(Range(last.orderedUrls))>>

\* C30: the extraction of src/Server.js and the one of src/unnamed/part_000
\* return the same for every url: the folder and the base file name without
\* extension for a url with the folder segment, null for any other.
C30_ExtractionsAgree ==
    output # Null => output[1].split = output[1].indexOf

\* C31: a request that runs on its own from the same stores ends in the same
\* active set, day-rule map and disabled set and is answered with the same
\* status in src/unnamed/part_000 (Promise.all) as in the second half of
\* src/Server.js (one await after another): in both, whatever the order in
\* which the calls of a Promise.all reach the store, the outcome is the one
\* of the awaits run in program order.
C31_RevisionsAgreeAlone ==
    (before # Null /\ last.op \in {"create", "disable", "enable", "updateDay",
                                   "reorder", "destroy"}) =>
        Outcome(active, days, disabled, last.status) = RunAlone(before, last)

\* C31 witness: the Promise.all revision has answered 200 to the disable of
\* an active url that had a day rule.
C31_Witness ==
    /\ rev = "par" /\ before # Null
    /\ last.op = "disable" /\ last.status = 200
    /\ last.url \in DOMAIN before.active /\ last.url \in DOMAIN before.days
    /\ last.url \in disabled /\ last.url \notin DOMAIN days

\* Urls cloudinary.uploader.upload has returned to a create so far.
Uploaded == {UploadUrls[i] : i \in 1..uploads}

\* C32: in the revisions with disable and enable, every member of the active
\* ordered-set and of the disabled set is a url that the upload of a create
\* returned, in every reachable state.
C32_OnlyCreatedUrlsStored ==
    rev \in Revisions => (DOMAIN active \cup disabled) \subseteq Uploaded

\* The urls in the body of the listing resp of the toggle revision.
ListedUrls(resp) ==
    IF resp.op = "listAll" THEN {resp.banners[i].url : i \in DOMAIN resp.banners}
    ELSE Range(resp.banners)

\* C33: in the toggle revision the bookkeeping member last_score_tracker is
\* never returned as a banner by GET /api/banners or GET /api/banners/all.
C33_TrackerNeverListed ==
    (rev = "toggle" /\ last.op \in {"list", "listAll"} /\ last.status = 200) =>
        LAST_SCORE_TRACKER \notin ListedUrls(last)

\* C34: a disable answered 404, not found or already disabled, has removed
\* nothing: it leaves the active set, the day-rule map and the disabled set
\* as they were.
C34_RefusedDisableRemovesNothing ==
    (last.op = "disable" /\ last.status = 404) => last.removed = <<0>>

\* C35: once all requests have ended, a url whose enable with day d was
\* answered 200, every other request on the url that overlapped or followed
\* it being answered 404, is active and has d in the day-rule map.
C35_StandingEnableIsActiveWithDay ==
    (enables # Null /\ AllIdle) =>
        \A u \in DOMAIN enables.day :
            /\ u \in DOMAIN active
            /\ u \in DOMAIN days /\ days[u] = enables.day[u]

\* C36: whenever no request is in progress, every url in the active set or in
\* the disabled set has its media object in the Media Store.
C36_StoredUrlsHaveMedia ==
    AllIdle => \A u \in DOMAIN active \cup disabled : PublicIdOf(u) \in cloud

\* C37: in the revisions that validate the day, every value of the day-rule
\* map is one of SUN, MON, TUE, WED, THU, FRI, SAT, ALL in every reachable
\* state, whatever day strings the requests carry.
C37_StoredDaysAreValid ==
    rev \in {"seq", "par"} =>
        \A u \in DOMAIN days :
            days[u] \in {"SUN", "MON", "TUE", "WED", "THU", "FRI", "SAT", "ALL"}

\* C37 witness: a create with the day XYZ has just been refused while the
\* day-rule map holds FRI, stored for an enable that carried `fri`.
C37_Witness ==
    /\ rev \in {"seq", "par"}
    /\ last.op = "create" /\ last.status = 400 /\ last.error = "invalid day"
    /\ \E u \in DOMAIN days : days[u] = "FRI"

\* The urls GET /api/banners answers on weekday today from the present stores.
SwitchListedOn(today) == Range(ToggleListNow("list", today).banners)

\* C38: in the toggle revision, switching a banner to disabled only adds it to
\* the disabled set, its member and score staying in the active ordered-set,
\* and GET /api/banners leaves it out; switching a banner of the ordered-set
\* back to active leaves every member and score as it was, so that the
\* banner is listed, on the days of its day rule, at the place it had among
\* the other banners.
C38_SwitchKeepsPlace ==
    (rev = "toggle" /\ before # Null /\ last.op = "toggle" /\ last.status = 200) =>
        /\ last.toggled = "disabled" =>
            /\ active = before.active /\ days = before.days
            /\ disabled = before.disabled \cup {last.url}
            /\ \A today \in 0..6 : last.url \notin SwitchListedOn(today)
        /\ (last.toggled = "active" /\ last.url \in DOMAIN before.active) =>
            /\ active = before.active
            /\ last.url \notin disabled
            /\ \A today \in 0..6 :
                last.url \in SwitchListedOn(today)
                    <=> last.day \in {"ALL", DAYS_MAP[today]}
            /\ \A today \in 0..6 :
                InOrderIn(ToggleListNow("list", today).banners,
                          UrlsOf(ZRange(before.active)))

\* C38 witness: u1 was uploaded before u2, switched off and on again, and is
\* listed before u2.
C38_Witness ==
    /\ rev = "toggle" /\ before # Null
    /\ last.op = "toggle" /\ last.status = 200 /\ last.toggled = "active"
    /\ last.url = "u1" /\ "u1" \in before.disabled /\ "u1" \in DOMAIN before.active
    /\ InOrderIn(<<"u1", "u2">>, ToggleListNow("list", 1).banners)
====
